---- MODULE Spec2Model ----
(***************************************************************************)
(* Image-slot userscript: the persisted slot list, the widget-handle map   *)
(* of core.ts and the host's widgets, with the callbacks of core.ts cut at *)
(* their await points.                                                     *)
(*                                                                         *)
(* One action is the code a callback runs between two awaits: what it does *)
(* after the previous await resumed, up to and including the effect of the *)
(* next host call it awaits.  Awaits of host calls that neither read nor   *)
(* write modelled state (permissions.request, story.id, selection.get) are *)
(* folded into the action that precedes them.                              *)
(***************************************************************************)
EXTENDS Integers, Sequences, FiniteSets, TLC

\* ---------------------------------------------------------------- bounds
NumSections == 3
NumIds == 2
MaxOps == 4
MaxProcs == 2
MaxOverlapOps == 3
MaxDeletes == 1
MaxLen == 2
MaxSortLen == 3
MaxOrder == 1

\* ------------------------------------------------------------- constants
Null == -1
Undefined == "undefined"
CurrentStory == "story"
MAX_SAFE_INTEGER == 2147483647

Sections == 1..NumSections
Ids == 1..NumIds
Procs == 1..MaxProcs

VARIABLES
  stored,         \* storyStorage value under KEY_ENTRIES: a sequence of entries
  widgetHandles,  \* the Map of core.ts, in insertion order: <<[key, handle]>>
  widgets,        \* the host's live widgets
  nextHandle,     \* the next widget handle the host hands out
  doc,            \* document.scan(): the section ids in document order
  notices,        \* dispose events the host has still to deliver to onChange
  calls,          \* the running callbacks, one record of locals per chain
  opCount,        \* callbacks started so far
  last,           \* the callback that returned most recently
  assigned,       \* history: the greatest order an Add has given on each paragraph
  modals,         \* the confirmation modals the host shows (the revision that asks)
  disposeCalls    \* history: how many times dispose() was called on each handle

vars == <<stored, widgetHandles, widgets, nextHandle, doc, notices, calls,
          opCount, last, assigned, modals, disposeCalls>>

\* --------------------------------------------------------------- helpers
Range(s) == {s[i] : i \in 1..Len(s)}

Max(S) == CHOOSE m \in S : \A n \in S : n <= m

EntryIds(entries) == {entries[i].id : i \in 1..Len(entries)}

NoEntry == [id |-> Null, storyId |-> Undefined, sectionId |-> Null, order |-> Null]

\* entries.filter((e) => e.sectionId === sectionId)
inSection(entries, sectionId) ==
  SelectSeq(entries, LAMBDA e : e.sectionId = sectionId)

\* nextOrder without the + 1
nextOrder_noinc(entries, sectionId) ==
  LET inSec == inSection(entries, sectionId)
  IN IF Len(inSec) # 0
       THEN Max({inSec[i].order : i \in 1..Len(inSec)})
       ELSE 0

\* inSection.length ? Math.max(...inSection.map((e) => e.order)) + 1 : 0
nextOrder(entries, sectionId) ==
  LET inSec == inSection(entries, sectionId)
  IN IF Len(inSec) # 0
       THEN Max({inSec[i].order : i \in 1..Len(inSec)}) + 1
       ELSE 0

\* entries.find((e) => e.id === entryId): the first match, NoEntry for undefined
find(entries, entryId) ==
  IF entryId \in EntryIds(entries)
    THEN entries[CHOOSE i \in 1..Len(entries) :
                   /\ entries[i].id = entryId
                   /\ \A k \in 1..(i - 1) : entries[k].id # entryId]
    ELSE NoEntry

\* sections.findIndex(...), 1-based; 0 stands for -1
findIndex(sections, sectionId) ==
  IF sectionId \in Range(sections)
    THEN CHOOSE i \in 1..Len(sections) :
           /\ sections[i] = sectionId
           /\ \A k \in 1..(i - 1) : sections[k] # sectionId
    ELSE 0

\* getMoveInfo enabling both directions wherever the paragraph is in the scan
getMoveInfo_noedge(sections, sectionId) ==
  LET index == findIndex(sections, sectionId)
      prevSectionId == IF index > 1 THEN sections[index - 1] ELSE Null
      nextSectionId == IF index < Len(sections) THEN sections[index + 1] ELSE Null
  IN IF index = 0
       THEN [canMoveUp |-> FALSE, canMoveDown |-> FALSE,
             prevSectionId |-> Null, nextSectionId |-> Null]
       ELSE [canMoveUp |-> TRUE,
             canMoveDown |-> TRUE,
             prevSectionId |-> prevSectionId,
             nextSectionId |-> nextSectionId]

getMoveInfo(sections, sectionId) ==
  LET index == findIndex(sections, sectionId)
      prevSectionId == IF index > 1 THEN sections[index - 1] ELSE Null
      nextSectionId == IF index < Len(sections) THEN sections[index + 1] ELSE Null
  IN IF index = 0
       THEN [canMoveUp |-> FALSE, canMoveDown |-> FALSE,
             prevSectionId |-> Null, nextSectionId |-> Null]
       ELSE [canMoveUp |-> prevSectionId # Null,
             canMoveDown |-> nextSectionId # Null,
             prevSectionId |-> prevSectionId,
             nextSectionId |-> nextSectionId]

\* ------------------------------------------------ the Map widgetHandles
MapKeys(m) == {m[i].key : i \in 1..Len(m)}

MapHas(m, k) == k \in MapKeys(m)

MapPos(m, k) == IF MapHas(m, k) THEN CHOOSE i \in 1..Len(m) : m[i].key = k ELSE 0

MapGet(m, k) == IF MapHas(m, k) THEN m[MapPos(m, k)].handle ELSE Null

\* Map.prototype.set: an existing key keeps its place, a new one goes last
MapSet(m, k, h) ==
  IF MapHas(m, k)
    THEN [m EXCEPT ![MapPos(m, k)].handle = h]
    ELSE Append(m, [key |-> k, handle |-> h])

MapDelete(m, k) ==
  IF MapHas(m, k)
    THEN [i \in 1..(Len(m) - 1) |-> IF i < MapPos(m, k) THEN m[i] ELSE m[i + 1]]
    ELSE m

\* A live Map iterator is the number of entries it has passed.  Deleting an
\* entry it has passed moves it back by one; Map.clear() leaves it at the start.
ItersAfterDelete(cs, m, k) ==
  IF MapHas(m, k)
    THEN [q \in Procs |->
            IF cs[q].it >= MapPos(m, k) THEN [cs[q] EXCEPT !.it = @ - 1] ELSE cs[q]]
    ELSE cs

ItersAfterClear(cs) == [q \in Procs |-> [cs[q] EXCEPT !.it = 0]]

\* ----------------------------------------------------------- host side
\* decorations.createWidget({type: "node", sectionId, content, onChange}): the
\* promise resolves to a handle whatever the sectionId; the widget carries the
\* slot's id (its buttons' callbacks and onChange close over entry.id) and the
\* disabled flags of its arrow buttons
HostWidget(h, entry, moveInfo) ==
  [h |-> h, entryId |-> entry.id, sectionId |-> entry.sectionId,
   canMoveUp |-> moveInfo.canMoveUp, canMoveDown |-> moveInfo.canMoveDown]

LiveHandles == {w.h : w \in widgets}

\* handle.dispose(): the host removes the widget; a second call finds none
HostDispose(ws, h) == {w \in ws : w.h # h}

\* one more call of dispose() on the handle h
DisposeCalled(d, h) ==
  [k \in DOMAIN d \cup {h} |-> IF k = h
                                 THEN (IF h \in DOMAIN d THEN d[h] ELSE 0) + 1
                                 ELSE d[k]]

\* ---------------------------------------------------------- call chains
IdleCall ==
  [op |-> "idle", pc |-> "idle", entryId |-> Null, direction |-> "none",
   sectionId |-> Null, entries |-> <<>>, sections |-> <<>>, entry |-> NoEntry,
   handle |-> Null, it |-> 0, j |-> 0, button |-> Null, missingStoryId |-> FALSE]

NoLast ==
  [op |-> "none", outcome |-> "none", entryId |-> Null, sectionId |-> Null,
   order |-> Null, cleared |-> 0, result |-> <<>>, input |-> <<>>,
   backfilled |-> FALSE, direction |-> "none", sections |-> <<>>]

AllIdle == \A q \in Procs : calls[q].op = "idle"

\* the chain a new callback runs in: the lowest free one
FreeProc(p) ==
  /\ calls[p].op = "idle"
  /\ \A q \in 1..(p - 1) : calls[q].op # "idle"

CanStart(p) ==
  /\ FreeProc(p)
  /\ opCount < MaxOps

Returned(cs, p, l) ==
  /\ calls' = [cs EXCEPT ![p] = IdleCall]
  /\ last' = l

Init ==
  /\ stored = <<>>
  /\ widgetHandles = <<>>
  /\ widgets = {}
  /\ nextHandle = 1
  /\ doc = [i \in 1..NumSections |-> i]
  /\ notices = {}
  /\ calls = [p \in Procs |-> IdleCall]
  /\ opCount = 0
  /\ last = NoLast
  /\ assigned = [s \in Sections |-> Null]
  /\ modals = {}
  /\ disposeCalls = <<>>

\* ------------------------------------------------------------- storage
\* the tokens some entry, widget, handle, notice or running callback carries
UsedIds ==
  (EntryIds(stored) \cup {w.entryId : w \in widgets} \cup MapKeys(widgetHandles)
     \cup {n.entryId : n \in notices} \cup {last.entryId}
     \cup UNION {{calls[q].entryId, calls[q].entry.id} \cup EntryIds(calls[q].entries)
                  : q \in Procs}) \cap Ids

\* Math.random().toString(36).slice(2, 10): any token, a used one included.
\* Tokens nothing carries yet are interchangeable: the least stands for them.
uid ==
  UsedIds \cup (IF UsedIds = Ids THEN {} ELSE {CHOOSE i \in Ids \ UsedIds :
                                                \A k \in Ids \ UsedIds : i <= k})

\* missingStoryId with every in place of some
missingStoryId_every(entries) ==
  \A i \in 1..Len(entries) : entries[i].storyId \in {Undefined, ""}

\* entries.some((entry) => !entry.storyId): undefined, null and "" are falsy
missingStoryId(entries) ==
  \E i \in 1..Len(entries) : entries[i].storyId \in {Undefined, ""}

\* ------------------------------------------------------- addImageHere
\* the panel's "Add Image Slot" button: ensurePerms, selection.get
AddStart(p, sel) ==
  /\ CanStart(p)
  /\ calls' = [calls EXCEPT ![p] =
       [IdleCall EXCEPT !.op = "add", !.pc = "add_read", !.sectionId = sel]]
  /\ opCount' = opCount + 1
  /\ UNCHANGED <<stored, widgetHandles, widgets, nextHandle, doc, notices, last, assigned,
                 modals, disposeCalls>>

\* AddNoSection without the return: the slot is stored with no section
AddNoSection_writes(p) ==
  /\ calls[p].pc = "add_read"
  /\ calls[p].sectionId = Null
  /\ stored' = Append(stored, [NoEntry EXCEPT !.storyId = CurrentStory, !.order = 0])
  /\ Returned(calls, p, [NoLast EXCEPT !.op = "add", !.outcome = "toast"])
  /\ UNCHANGED <<widgetHandles, widgets, nextHandle, doc, notices, opCount, assigned,
                 modals, disposeCalls>>

\* sectionId undefined or null: toast and return
AddNoSection(p) ==
  /\ calls[p].pc = "add_read"
  /\ calls[p].sectionId = Null
  /\ Returned(calls, p, [NoLast EXCEPT !.op = "add", !.outcome = "toast"])
  /\ UNCHANGED <<stored, widgetHandles, widgets, nextHandle, doc, notices, opCount, assigned,
                 modals, disposeCalls>>

\* const entries = await getEntries()
AddRead(p) ==
  /\ calls[p].pc = "add_read"
  /\ calls[p].sectionId # Null
  /\ ~missingStoryId(stored)
  /\ calls' = [calls EXCEPT ![p].pc = "add_write", ![p].entries = stored]
  /\ UNCHANGED <<stored, widgetHandles, widgets, nextHandle, doc, notices,
                 opCount, assigned, last, modals, disposeCalls>>

\* AddWrite appending to what is stored now instead of to what it read
AddWrite_merge(p, newId) ==
  /\ calls[p].pc = "add_write"
  /\ newId \in uid
  /\ LET c == calls[p]
         next == [id |-> newId, storyId |-> CurrentStory,
                  sectionId |-> c.sectionId,
                  order |-> nextOrder(stored, c.sectionId)]
     IN /\ stored' = Append(stored, next)
        /\ calls' = [calls EXCEPT ![p].pc = "add_scan", ![p].entry = next]
        /\ assigned' = [assigned EXCEPT ![c.sectionId] = Max({@, next.order})]
  /\ UNCHANGED <<widgetHandles, widgets, nextHandle, doc, notices, opCount, last,
                 modals, disposeCalls>>

\* AddWrite putting the new entry first in the list
AddWrite_first(p, newId) ==
  /\ calls[p].pc = "add_write"
  /\ newId \in uid
  /\ LET c == calls[p]
         next == [id |-> newId, storyId |-> CurrentStory,
                  sectionId |-> c.sectionId,
                  order |-> nextOrder(c.entries, c.sectionId)]
     IN /\ stored' = <<next>> \o c.entries
        /\ calls' = [calls EXCEPT ![p].pc = "add_scan", ![p].entry = next]
        /\ assigned' = [assigned EXCEPT ![c.sectionId] = Max({@, next.order})]
  /\ UNCHANGED <<widgetHandles, widgets, nextHandle, doc, notices, opCount, last,
                 modals, disposeCalls>>

\* story.id(), next = {id: uid(), ...}, await setEntries([...entries, next])
AddWrite(p, newId) ==
  /\ calls[p].pc = "add_write"
  /\ newId \in uid
  /\ LET c == calls[p]
         next == [id |-> newId, storyId |-> CurrentStory,
                  sectionId |-> c.sectionId,
                  order |-> nextOrder(c.entries, c.sectionId)]
     IN /\ stored' = Append(c.entries, next)
        /\ calls' = [calls EXCEPT ![p].pc = "add_scan", ![p].entry = next]
        /\ assigned' = [assigned EXCEPT ![c.sectionId] = Max({@, next.order})]
  /\ UNCHANGED <<widgetHandles, widgets, nextHandle, doc, notices, opCount, last,
                 modals, disposeCalls>>

\* createWidget(next): sections ?? (await api.v1.document.scan())
AddScan(p) ==
  /\ calls[p].pc = "add_scan"
  /\ calls' = [calls EXCEPT ![p].pc = "add_create", ![p].sections = doc]
  /\ UNCHANGED <<stored, widgetHandles, widgets, nextHandle, doc, notices,
                 opCount, assigned, last, modals, disposeCalls>>

\* getMoveInfo, await decorations.createWidget(...)
AddCreate(p) ==
  /\ calls[p].pc = "add_create"
  /\ LET c == calls[p]
     IN /\ widgets' = widgets \cup
             {HostWidget(nextHandle, c.entry, getMoveInfo(c.sections, c.entry.sectionId))}
        /\ calls' = [calls EXCEPT ![p].pc = "add_set", ![p].handle = nextHandle]
  /\ nextHandle' = nextHandle + 1
  /\ UNCHANGED <<stored, widgetHandles, doc, notices, opCount, assigned, last,
                 modals, disposeCalls>>

\* widgetHandles.set(entry.id, handle); addImageHere returns
AddSet(p) ==
  /\ calls[p].pc = "add_set"
  /\ LET c == calls[p]
     IN /\ widgetHandles' = MapSet(widgetHandles, c.entry.id, c.handle)
        /\ Returned(calls, p,
             [NoLast EXCEPT !.op = "add", !.outcome = "added",
                            !.entryId = c.entry.id,
                            !.sectionId = c.entry.sectionId,
                            !.order = c.entry.order,
                            !.backfilled = c.missingStoryId])
  /\ UNCHANGED <<stored, widgets, nextHandle, doc, notices, opCount, assigned,
                 modals, disposeCalls>>

\* ------------------------------------------------------- clearEntries
\* the panel's "Clear All Image Slots" button: ensurePerms
ClearStart(p) ==
  /\ CanStart(p)
  /\ calls' = [calls EXCEPT ![p] = [IdleCall EXCEPT !.op = "clear", !.pc = "cl_write"]]
  /\ opCount' = opCount + 1
  /\ UNCHANGED <<stored, widgetHandles, widgets, nextHandle, doc, notices, last, assigned,
                 modals, disposeCalls>>

\* await setEntries([])
ClearWrite(p) ==
  /\ calls[p].pc = "cl_write"
  /\ stored' = <<>>
  /\ calls' = [calls EXCEPT ![p].pc = "cl_loop", ![p].it = 0]
  /\ UNCHANGED <<widgetHandles, widgets, nextHandle, doc, notices, opCount, assigned, last,
                 modals, disposeCalls>>

\* for (const handle of widgetHandles.values()) await handle.dispose()
ClearDispose(p) ==
  /\ calls[p].pc = "cl_loop"
  /\ calls[p].it < Len(widgetHandles)
  /\ widgets' = HostDispose(widgets, widgetHandles[calls[p].it + 1].handle)
  /\ calls' = [calls EXCEPT ![p].it = @ + 1]
  /\ UNCHANGED <<stored, widgetHandles, nextHandle, doc, notices, opCount, assigned, last,
                 modals>>
  /\ disposeCalls' =
       DisposeCalled(disposeCalls, widgetHandles[calls[p].it + 1].handle)

\* ClearReturn without widgetHandles.clear()
ClearReturn_noclear(p) ==
  /\ calls[p].pc = "cl_loop"
  /\ calls[p].it >= Len(widgetHandles)
  /\ Returned(calls, p,
       [NoLast EXCEPT !.op = "clear", !.outcome = "cleared",
                      !.cleared = Len(widgetHandles)])
  /\ UNCHANGED <<stored, widgetHandles, widgets, nextHandle, doc, notices, opCount, assigned,
                 modals, disposeCalls>>

\* the iterator is done: widgetHandles.clear(), toast, return
ClearReturn(p) ==
  /\ calls[p].pc = "cl_loop"
  /\ calls[p].it >= Len(widgetHandles)
  /\ widgetHandles' = <<>>
  /\ Returned(ItersAfterClear(calls), p,
       [NoLast EXCEPT !.op = "clear", !.outcome = "cleared",
                      !.cleared = Len(widgetHandles)])
  /\ UNCHANGED <<stored, widgets, nextHandle, doc, notices, opCount, assigned,
                 modals, disposeCalls>>

\* -------------------------------------------------------- removeEntry
\* the x button of a widget the host shows: onRemove(entry.id), ensurePerms
RemoveStart(p, w) ==
  /\ CanStart(p)
  /\ w \in widgets
  /\ calls' = [calls EXCEPT ![p] =
       [IdleCall EXCEPT !.op = "remove", !.pc = "rm_read", !.entryId = w.entryId]]
  /\ opCount' = opCount + 1
  /\ UNCHANGED <<stored, widgetHandles, widgets, nextHandle, doc, notices, last, assigned,
                 modals, disposeCalls>>

\* const entries = await getEntries()
RemoveRead(p) ==
  /\ calls[p].pc = "rm_read"
  /\ ~missingStoryId(stored)
  /\ calls' = [calls EXCEPT ![p].pc = "rm_write", ![p].entries = stored]
  /\ UNCHANGED <<stored, widgetHandles, widgets, nextHandle, doc, notices,
                 opCount, assigned, last, modals, disposeCalls>>

\* RemoveNotFound with the handle dropped from the map before the return
RemoveNotFound_unmaps(p) ==
  /\ calls[p].pc = "rm_write"
  /\ find(calls[p].entries, calls[p].entryId) = NoEntry
  /\ widgetHandles' = MapDelete(widgetHandles, calls[p].entryId)
  /\ Returned(ItersAfterDelete(calls, widgetHandles, calls[p].entryId), p,
       [NoLast EXCEPT !.op = "remove", !.outcome = "notFound",
                      !.entryId = calls[p].entryId])
  /\ UNCHANGED <<stored, widgets, nextHandle, doc, notices, opCount, assigned,
                 modals, disposeCalls>>

\* if (!entry) return
RemoveNotFound(p) ==
  /\ calls[p].pc = "rm_write"
  /\ find(calls[p].entries, calls[p].entryId) = NoEntry
  /\ Returned(calls, p,
       [NoLast EXCEPT !.op = "remove", !.outcome = "notFound",
                      !.entryId = calls[p].entryId])
  /\ UNCHANGED <<stored, widgetHandles, widgets, nextHandle, doc, notices, opCount, assigned,
                 modals, disposeCalls>>

\* removeFilter renumbering the slots it keeps by their place in the list
removeFilter_renumber(entries, entryId) ==
  LET kept == SelectSeq(entries, LAMBDA e : e.id # entryId)
  IN [i \in 1..Len(kept) |-> [kept[i] EXCEPT !.order = i - 1]]

\* entries.filter((e) => e.id !== entryId)
removeFilter(entries, entryId) == SelectSeq(entries, LAMBDA e : e.id # entryId)

\* await setEntries(nextEntries)
RemoveWrite(p) ==
  /\ calls[p].pc = "rm_write"
  /\ find(calls[p].entries, calls[p].entryId) # NoEntry
  /\ stored' = removeFilter(calls[p].entries, calls[p].entryId)
  /\ calls' = [calls EXCEPT ![p].pc = "rm_dispose"]
  /\ UNCHANGED <<widgetHandles, widgets, nextHandle, doc, notices, opCount, assigned, last,
                 modals, disposeCalls>>

\* const handle = widgetHandles.get(entryId); if (handle) await handle.dispose()
RemoveDispose(p) ==
  /\ calls[p].pc = "rm_dispose"
  /\ MapHas(widgetHandles, calls[p].entryId)
  /\ widgets' = HostDispose(widgets, MapGet(widgetHandles, calls[p].entryId))
  /\ calls' = [calls EXCEPT ![p].pc = "rm_delete",
                            ![p].handle = MapGet(widgetHandles, calls[p].entryId)]
  /\ UNCHANGED <<stored, widgetHandles, nextHandle, doc, notices, opCount, assigned, last,
                 modals>>
  /\ disposeCalls' =
       DisposeCalled(disposeCalls, MapGet(widgetHandles, calls[p].entryId))

\* no handle under entryId: return
RemoveNoHandle(p) ==
  /\ calls[p].pc = "rm_dispose"
  /\ ~MapHas(widgetHandles, calls[p].entryId)
  /\ Returned(calls, p,
       [NoLast EXCEPT !.op = "remove", !.outcome = "removed",
                      !.entryId = calls[p].entryId])
  /\ UNCHANGED <<stored, widgetHandles, widgets, nextHandle, doc, notices, opCount, assigned,
                 modals, disposeCalls>>

\* widgetHandles.delete(entryId); return
RemoveDelete(p) ==
  /\ calls[p].pc = "rm_delete"
  /\ widgetHandles' = MapDelete(widgetHandles, calls[p].entryId)
  /\ Returned(ItersAfterDelete(calls, widgetHandles, calls[p].entryId), p,
       [NoLast EXCEPT !.op = "remove", !.outcome = "removed",
                      !.entryId = calls[p].entryId])
  /\ UNCHANGED <<stored, widgets, nextHandle, doc, notices, opCount, assigned,
                 modals, disposeCalls>>

\* ---------------------------------------------------------- moveEntry
\* an enabled arrow button of a widget the host shows (disabled while its own
\* callback runs): onMove(entry.id, direction), ensurePerms
MoveStart(p, w, direction) ==
  /\ CanStart(p)
  /\ w \in widgets
  /\ IF direction = "up" THEN w.canMoveUp ELSE w.canMoveDown
  /\ \A q \in Procs : ~(/\ calls[q].op = "move"
                        /\ calls[q].button = w.h
                        /\ calls[q].direction = direction)
  /\ calls' = [calls EXCEPT ![p] =
       [IdleCall EXCEPT !.op = "move", !.pc = "mv_read", !.entryId = w.entryId,
                        !.direction = direction, !.button = w.h]]
  /\ opCount' = opCount + 1
  /\ UNCHANGED <<stored, widgetHandles, widgets, nextHandle, doc, notices, last, assigned,
                 modals, disposeCalls>>

\* const entries = await getEntries()
MoveRead(p) ==
  /\ calls[p].pc = "mv_read"
  /\ ~missingStoryId(stored)
  /\ calls' = [calls EXCEPT ![p].pc = "mv_scan", ![p].entries = stored]
  /\ UNCHANGED <<stored, widgetHandles, widgets, nextHandle, doc, notices,
                 opCount, assigned, last, modals, disposeCalls>>

\* MoveNotFound going on to the scan instead of returning
MoveNotFound_goeson(p) ==
  /\ calls[p].pc = "mv_scan"
  /\ find(calls[p].entries, calls[p].entryId) = NoEntry
  /\ calls' = [calls EXCEPT ![p].pc = "mv_dispose",
                            ![p].entry = [NoEntry EXCEPT !.id = calls[p].entryId],
                            ![p].sections = doc]
  /\ UNCHANGED <<stored, widgetHandles, widgets, nextHandle, doc, notices,
                 opCount, assigned, last, modals, disposeCalls>>

\* if (!entry) return
MoveNotFound(p) ==
  /\ calls[p].pc = "mv_scan"
  /\ find(calls[p].entries, calls[p].entryId) = NoEntry
  /\ Returned(calls, p,
       [NoLast EXCEPT !.op = "move", !.outcome = "notFound",
                      !.entryId = calls[p].entryId])
  /\ UNCHANGED <<stored, widgetHandles, widgets, nextHandle, doc, notices, opCount, assigned,
                 modals, disposeCalls>>

\* const sections = await api.v1.document.scan()
MoveScan(p) ==
  /\ calls[p].pc = "mv_scan"
  /\ find(calls[p].entries, calls[p].entryId) # NoEntry
  /\ calls' = [calls EXCEPT ![p].pc = "mv_write", ![p].sections = doc]
  /\ UNCHANGED <<stored, widgetHandles, widgets, nextHandle, doc, notices,
                 opCount, assigned, last, modals, disposeCalls>>

\* targetSectionId with the two directions swapped
targetSectionId_swapped(sections, entry, direction) ==
  LET moveInfo == getMoveInfo(sections, entry.sectionId)
  IN IF direction = "up" THEN moveInfo.nextSectionId ELSE moveInfo.prevSectionId

\* direction === "up" ? moveInfo.prevSectionId : moveInfo.nextSectionId
targetSectionId(sections, entry, direction) ==
  LET moveInfo == getMoveInfo(sections, entry.sectionId)
  IN IF direction = "up" THEN moveInfo.prevSectionId ELSE moveInfo.nextSectionId

\* updatedEntry built from scratch, without the spread of the entry
updatedEntry_nospread(entries, entry, target) ==
  [NoEntry EXCEPT !.id = entry.id, !.sectionId = target,
                  !.order = nextOrder(entries, target)]

\* {...entry, sectionId: targetSectionId, order: nextOrder}
updatedEntry(entries, entry, target) ==
  [entry EXCEPT !.sectionId = target, !.order = nextOrder(entries, target)]

\* entries.map((e) => e.id === entryId ? updatedEntry : e)
moveMap(entries, entryId, updated) ==
  [i \in 1..Len(entries) |-> IF entries[i].id = entryId THEN updated ELSE entries[i]]

\* MoveNoTarget giving the slot a fresh order on its own paragraph and going on
MoveNoTarget_stays(p) ==
  /\ calls[p].pc = "mv_write"
  /\ LET c == calls[p]
         entry == find(c.entries, c.entryId)
         updated == updatedEntry(c.entries, entry, entry.sectionId)
     IN /\ targetSectionId(c.sections, entry, c.direction) = Null
        /\ stored' = moveMap(c.entries, c.entryId, updated)
        /\ calls' = [calls EXCEPT ![p].pc = "mv_dispose", ![p].entry = updated]
  /\ UNCHANGED <<widgetHandles, widgets, nextHandle, doc, notices, opCount, assigned,
                 last, modals, disposeCalls>>

\* if (targetSectionId === null) return
MoveNoTarget(p) ==
  /\ calls[p].pc = "mv_write"
  /\ LET c == calls[p]
     IN /\ targetSectionId(c.sections, find(c.entries, c.entryId), c.direction) = Null
        /\ Returned(calls, p,
             [NoLast EXCEPT !.op = "move", !.outcome = "noTarget",
                            !.entryId = c.entryId])
  /\ UNCHANGED <<stored, widgetHandles, widgets, nextHandle, doc, notices, opCount, assigned,
                 modals, disposeCalls>>

\* MoveWrite going on to the widget calls with the list still to be written
MoveWrite_late(p) ==
  /\ calls[p].pc = "mv_write"
  /\ LET c == calls[p]
         entry == find(c.entries, c.entryId)
         target == targetSectionId(c.sections, entry, c.direction)
         updated == updatedEntry(c.entries, entry, target)
     IN /\ target # Null
        /\ calls' = [calls EXCEPT ![p].pc = "mv_dispose", ![p].entry = updated]
  /\ UNCHANGED <<stored, widgetHandles, widgets, nextHandle, doc, notices, opCount,
                 assigned, last, modals, disposeCalls>>

\* await setEntries(nextEntries)
MoveWrite(p) ==
  /\ calls[p].pc = "mv_write"
  /\ LET c == calls[p]
         entry == find(c.entries, c.entryId)
         target == targetSectionId(c.sections, entry, c.direction)
         updated == updatedEntry(c.entries, entry, target)
     IN /\ target # Null
        /\ stored' = moveMap(c.entries, c.entryId, updated)
        /\ calls' = [calls EXCEPT ![p].pc = "mv_dispose", ![p].entry = updated]
  /\ UNCHANGED <<widgetHandles, widgets, nextHandle, doc, notices, opCount, assigned, last,
                 modals, disposeCalls>>

\* const handle = widgetHandles.get(entryId); if (handle) await handle.dispose()
MoveDispose(p) ==
  /\ calls[p].pc = "mv_dispose"
  /\ MapHas(widgetHandles, calls[p].entryId)
  /\ widgets' = HostDispose(widgets, MapGet(widgetHandles, calls[p].entryId))
  /\ calls' = [calls EXCEPT ![p].pc = "mv_delete",
                            ![p].handle = MapGet(widgetHandles, calls[p].entryId)]
  /\ UNCHANGED <<stored, widgetHandles, nextHandle, doc, notices, opCount, assigned, last,
                 modals>>
  /\ disposeCalls' =
       DisposeCalled(disposeCalls, MapGet(widgetHandles, calls[p].entryId))

\* MoveDelete creating the new widget from the entry it read, createWidget(entry,
\* sections), instead of from updatedEntry
MoveDelete_old(p) ==
  /\ calls[p].pc = "mv_delete"
  /\ LET c == calls[p]
         entry == find(c.entries, c.entryId)
     IN /\ widgetHandles' = MapDelete(widgetHandles, c.entryId)
        /\ widgets' = widgets \cup
             {HostWidget(nextHandle, entry, getMoveInfo(c.sections, entry.sectionId))}
        /\ calls' = [ItersAfterDelete(calls, widgetHandles, c.entryId)
                       EXCEPT ![p].pc = "mv_set", ![p].handle = nextHandle]
  /\ nextHandle' = nextHandle + 1
  /\ UNCHANGED <<stored, doc, notices, opCount, assigned, last, modals, disposeCalls>>

\* widgetHandles.delete(entryId); createWidget(updatedEntry, sections):
\* getMoveInfo, await decorations.createWidget(...)
MoveDelete(p) ==
  /\ calls[p].pc = "mv_delete"
  /\ LET c == calls[p]
     IN /\ widgetHandles' = MapDelete(widgetHandles, c.entryId)
        /\ widgets' = widgets \cup
             {HostWidget(nextHandle, c.entry, getMoveInfo(c.sections, c.entry.sectionId))}
        /\ calls' = [ItersAfterDelete(calls, widgetHandles, c.entryId)
                       EXCEPT ![p].pc = "mv_set", ![p].handle = nextHandle]
  /\ nextHandle' = nextHandle + 1
  /\ UNCHANGED <<stored, doc, notices, opCount, assigned, last, modals, disposeCalls>>

\* no handle under entryId: createWidget(updatedEntry, sections) at once
MoveCreate(p) ==
  /\ calls[p].pc = "mv_dispose"
  /\ ~MapHas(widgetHandles, calls[p].entryId)
  /\ LET c == calls[p]
     IN /\ widgets' = widgets \cup
             {HostWidget(nextHandle, c.entry, getMoveInfo(c.sections, c.entry.sectionId))}
        /\ calls' = [calls EXCEPT ![p].pc = "mv_set", ![p].handle = nextHandle]
  /\ nextHandle' = nextHandle + 1
  /\ UNCHANGED <<stored, widgetHandles, doc, notices, opCount, assigned, last,
                 modals, disposeCalls>>

\* widgetHandles.set(entry.id, handle); moveEntry returns
MoveSet(p) ==
  /\ calls[p].pc = "mv_set"
  /\ LET c == calls[p]
     IN /\ widgetHandles' = MapSet(widgetHandles, c.entry.id, c.handle)
        /\ Returned(calls, p,
             [NoLast EXCEPT !.op = "move", !.outcome = "moved",
                            !.entryId = c.entryId,
                            !.sectionId = c.entry.sectionId,
                            !.order = c.entry.order,
                            !.direction = c.direction,
                            !.sections = c.sections,
                            !.input = c.entries])
  /\ UNCHANGED <<stored, widgets, nextHandle, doc, notices, opCount, assigned,
                 modals, disposeCalls>>

\* ------------------------------------- the scripts-loaded hook, syncWidgets
\* onScriptsLoaded: initWidgets(), ensurePerms
HookStart(p) ==
  /\ CanStart(p)
  /\ calls' = [calls EXCEPT ![p] = [IdleCall EXCEPT !.op = "hook", !.pc = "hk_clear"]]
  /\ opCount' = opCount + 1
  /\ UNCHANGED <<stored, widgetHandles, widgets, nextHandle, doc, notices, last, assigned,
                 modals, disposeCalls>>

\* decorations.clearWidgets(); widgetHandles.clear(); syncWidgets():
\* const entries = await getEntries()
HookClear(p) ==
  /\ calls[p].pc = "hk_clear"
  /\ ~missingStoryId(stored)
  /\ widgets' = {}
  /\ widgetHandles' = <<>>
  /\ calls' = [ItersAfterClear(calls) EXCEPT ![p].pc = "sy_scan", ![p].entries = stored]
  /\ UNCHANGED <<stored, nextHandle, doc, notices, opCount, assigned, last,
                 modals, disposeCalls>>

\* SyncScan dropping from storage the slots whose paragraph is not in the scan
SyncScan_prunes(p) ==
  /\ calls[p].pc = "sy_scan"
  /\ stored' = SelectSeq(stored, LAMBDA e : e.sectionId \in Range(doc))
  /\ calls' = [calls EXCEPT ![p].pc = "sy_loop", ![p].sections = doc, ![p].it = 0,
                            ![p].entries = stored']
  /\ UNCHANGED <<widgetHandles, widgets, nextHandle, doc, notices,
                 opCount, assigned, last, modals, disposeCalls>>

\* const sections = await api.v1.document.scan()
SyncScan(p) ==
  /\ calls[p].pc = "sy_scan"
  /\ calls' = [calls EXCEPT ![p].pc = "sy_loop", ![p].sections = doc, ![p].it = 0]
  /\ UNCHANGED <<stored, widgetHandles, widgets, nextHandle, doc, notices,
                 opCount, assigned, last, modals, disposeCalls>>

\* What syncWidgets does first when an await of its loops resumes:
\* widgetHandles.delete(entryId) after handle.dispose(), and
\* widgetHandles.set(entry.id, handle) after createWidget's host call.
SyncResumedMap(p) ==
  LET c == calls[p]
  IN CASE c.pc = "sy_loop" /\ c.entryId # Null -> MapDelete(widgetHandles, c.entryId)
       [] c.pc = "sy_set" -> MapSet(widgetHandles, c.entry.id, c.handle)
       [] OTHER -> widgetHandles

SyncResumedCalls(p) ==
  LET c == calls[p]
  IN IF c.pc = "sy_loop" /\ c.entryId # Null
       THEN ItersAfterDelete(calls, widgetHandles, c.entryId)
       ELSE calls

\* for (const [entryId, handle] of widgetHandles): the places still ahead of
\* the iterator whose key is not in entryIds
SyncStale(p) ==
  LET m == SyncResumedMap(p)
      c == SyncResumedCalls(p)[p]
  IN IF c.pc = "sy_loop"
       THEN {k \in (c.it + 1)..Len(m) : m[k].key \notin EntryIds(c.entries)}
       ELSE {}

\* for (const entry of entries): the entries still ahead with no handle
SyncMissing(p) ==
  LET m == SyncResumedMap(p)
      c == calls[p]
  IN {i \in (c.j + 1)..Len(c.entries) : ~MapHas(m, c.entries[i].id)}

Min(S) == CHOOSE m \in S : \A n \in S : m <= n

\* if (!entryIds.has(entryId)) await handle.dispose()
SyncDispose(p) ==
  /\ calls[p].pc = "sy_loop"
  /\ SyncStale(p) # {}
  /\ LET m == SyncResumedMap(p)
         k == Min(SyncStale(p))
     IN /\ widgetHandles' = m
        /\ widgets' = HostDispose(widgets, m[k].handle)
        /\ calls' = [SyncResumedCalls(p) EXCEPT ![p].it = k, ![p].entryId = m[k].key,
                                                ![p].handle = m[k].handle]
  /\ UNCHANGED <<stored, nextHandle, doc, notices, opCount, assigned, last, modals>>
  /\ disposeCalls' =
       DisposeCalled(disposeCalls, SyncResumedMap(p)[Min(SyncStale(p))].handle)

\* if (!widgetHandles.has(entry.id)) await createWidget(entry, sections):
\* getMoveInfo, await decorations.createWidget(...)
SyncCreate(p) ==
  /\ calls[p].pc \in {"sy_loop", "sy_set"}
  /\ SyncStale(p) = {}
  /\ SyncMissing(p) # {}
  /\ LET c == calls[p]
         i == Min(SyncMissing(p))
         entry == c.entries[i]
     IN /\ widgetHandles' = SyncResumedMap(p)
        /\ widgets' = widgets \cup
             {HostWidget(nextHandle, entry, getMoveInfo(c.sections, entry.sectionId))}
        /\ calls' = [SyncResumedCalls(p) EXCEPT
                       ![p].pc = "sy_set", ![p].j = i, ![p].entry = entry,
                       ![p].handle = nextHandle, ![p].entryId = Null, ![p].it = 0]
  /\ nextHandle' = nextHandle + 1
  /\ UNCHANGED <<stored, doc, notices, opCount, assigned, last, modals, disposeCalls>>

\* both loops are done: syncWidgets and the hook's callback return
SyncReturn(p) ==
  /\ calls[p].pc \in {"sy_loop", "sy_set"}
  /\ SyncStale(p) = {}
  /\ SyncMissing(p) = {}
  /\ widgetHandles' = SyncResumedMap(p)
  /\ Returned(SyncResumedCalls(p), p,
       [NoLast EXCEPT !.op = calls[p].op,
                      !.outcome = IF calls[p].missingStoryId THEN "backfilled"
                                                             ELSE "synced",
                      !.result = calls[p].entries])
  /\ UNCHANGED <<stored, widgets, nextHandle, doc, notices, opCount, assigned,
                 modals, disposeCalls>>

\* --------------------------------------------------------- host events
\* The user deletes a paragraph: the host disposes the widgets anchored to it
\* and owes each one's onChange a dispose event (reason: sectionRemoved).
DeleteSection(s) ==
  /\ s \in Range(doc)
  /\ NumSections - Len(doc) < MaxDeletes
  /\ doc' = SelectSeq(doc, LAMBDA x : x # s)
  /\ widgets' = {w \in widgets : w.sectionId # s}
  /\ notices' = notices \cup
       {[h |-> w.h, entryId |-> w.entryId] : w \in {v \in widgets : v.sectionId = s}}
  /\ UNCHANGED <<stored, widgetHandles, nextHandle, calls, opCount, assigned, last,
                 modals, disposeCalls>>

\* OnChangeDispose without the delete
OnChangeDispose_keeps(n) ==
  /\ n \in notices
  /\ notices' = notices \ {n}
  /\ UNCHANGED <<stored, widgetHandles, widgets, nextHandle, doc, calls, opCount,
                 assigned, last, modals, disposeCalls>>

\* onChange: if (event.type === "dispose") widgetHandles.delete(entry.id)
OnChangeDispose(n) ==
  /\ n \in notices
  /\ notices' = notices \ {n}
  /\ widgetHandles' = MapDelete(widgetHandles, n.entryId)
  /\ calls' = ItersAfterDelete(calls, widgetHandles, n.entryId)
  /\ UNCHANGED <<stored, widgets, nextHandle, doc, opCount, assigned, last,
                 modals, disposeCalls>>

\* The host tells a live widget's onChange that the widget changed position
\* (event.type === "change"): the callback does nothing and returns.
OnChangeChange(w) ==
  /\ w \in widgets
  /\ last' = [NoLast EXCEPT !.op = "onChange", !.outcome = "change",
                            !.entryId = w.entryId]
  /\ UNCHANGED <<stored, widgetHandles, widgets, nextHandle, doc, notices, calls,
                 opCount, assigned, modals, disposeCalls>>

\* `${entry.storyId}:${entry.id}`
stableSlotKey(entry) == <<entry.storyId, ":", entry.id>>

\* id: `cg-img-${slotKey}`
placeholderId(entry) == <<"cg-img-">> \o stableSlotKey(entry)

\* ------------------------------------------------------ specifications
Step(p) ==
  \/ AddNoSection(p)
  \/ AddRead(p)
  \/ \E newId \in Ids : AddWrite(p, newId)
  \/ AddScan(p)
  \/ AddCreate(p)
  \/ AddSet(p)
  \/ ClearWrite(p)
  \/ ClearDispose(p)
  \/ ClearReturn(p)
  \/ RemoveRead(p)
  \/ RemoveNotFound(p)
  \/ RemoveWrite(p)
  \/ RemoveDispose(p)
  \/ RemoveNoHandle(p)
  \/ RemoveDelete(p)
  \/ MoveRead(p)
  \/ MoveNotFound(p)
  \/ MoveScan(p)
  \/ MoveNoTarget(p)
  \/ MoveWrite(p)
  \/ MoveDispose(p)
  \/ MoveDelete(p)
  \/ MoveCreate(p)
  \/ MoveSet(p)
  \/ HookClear(p)
  \/ SyncScan(p)
  \/ SyncCreate(p)
  \/ SyncReturn(p)

Start(p) ==
  \/ \E sel \in Range(doc) \cup {Null} : AddStart(p, sel)
  \/ ClearStart(p)
  \/ \E w \in widgets : RemoveStart(p, w)
  \/ \E w \in widgets : \E direction \in {"up", "down"} : MoveStart(p, w, direction)
  \/ HookStart(p)

HostEvent ==
  \/ \E s \in Sections : DeleteSection(s)
  \/ \E n \in notices : OnChangeDispose(n)

\* callbacks one at a time: nothing starts or arrives while one is running
Next ==
  \/ Start(1)
  \/ AllIdle /\ HostEvent
  \/ Step(1)

Spec == Init /\ [][Next]_vars

\* callbacks one at a time, the change events of the widgets among them
NextEvents ==
  \/ Next
  \/ AllIdle /\ \E w \in widgets : OnChangeChange(w)

SpecEvents == Init /\ [][NextEvents]_vars

\* callbacks overlapping at their await points
NextOverlap ==
  \/ \E p \in Procs : opCount < MaxOverlapOps /\ Start(p)
  \/ HostEvent
  \/ \E p \in Procs : Step(p) \/ SyncDispose(p)

SpecOverlap == Init /\ [][NextOverlap]_vars

\* ------------------------------------- syncWidgets on any map and any list
\* the lists of at most MaxLen entries that Adds of this revision stored
Lists ==
  UNION {[1..n -> [id : Ids, storyId : {CurrentStory}, sectionId : Sections,
                   order : 0..(MaxLen - 1)]] : n \in 0..MaxLen}

\* the maps from slot ids to handles: each id at most once, the handle that
\* createWidget resolved to for it (numbered as the id)
Maps ==
  {m \in UNION {[1..n -> [key : Ids, handle : Ids]] : n \in 0..NumIds} :
     /\ \A i \in 1..Len(m) : m[i].handle = m[i].key
     /\ \A i \in 1..Len(m) : \A k \in 1..Len(m) : i # k => m[i].key # m[k].key}

\* the widget createWidget made for the slot of id k: anchored to the slot's
\* paragraph when the slot is stored, to the first paragraph when it is not
WidgetOf(entries, sections, k, h) ==
  LET entry == IF k \in EntryIds(entries)
                 THEN find(entries, k)
                 ELSE [NoEntry EXCEPT !.id = k, !.sectionId = sections[1]]
  IN HostWidget(h, entry, getMoveInfo(sections, entry.sectionId))

\* the handles the host gives out from here on are not in the map
FirstNew == NumIds + 1

\* a stored list, a map, and for each handle of the map a widget that is live
\* or was disposed
InitSync ==
  /\ stored \in Lists
  /\ widgetHandles \in Maps
  /\ doc = [i \in 1..NumSections |-> i]
  /\ widgets \in SUBSET {WidgetOf(stored, doc, widgetHandles[i].key,
                                   widgetHandles[i].handle) :
                            i \in 1..Len(widgetHandles)}
  /\ nextHandle = FirstNew
  /\ notices = {}
  /\ calls = [p \in Procs |-> IdleCall]
  /\ opCount = 0
  /\ last = NoLast
  /\ assigned = [s \in Sections |-> Null]
  /\ modals = {}
  /\ disposeCalls = <<>>

\* syncWidgets(): const entries = await getEntries()
SyncStart(p) ==
  /\ CanStart(p)
  /\ ~missingStoryId(stored)
  /\ calls' = [calls EXCEPT ![p] =
       [IdleCall EXCEPT !.op = "sync", !.pc = "sy_scan", !.entries = stored]]
  /\ opCount' = opCount + 1
  /\ UNCHANGED <<stored, widgetHandles, widgets, nextHandle, doc, notices, last,
                 assigned, modals, disposeCalls>>

\* one call of syncWidgets, with nothing else running
NextSync ==
  \/ opCount = 0 /\ SyncStart(1)
  \/ SyncScan(1)
  \/ SyncDispose(1)
  \/ SyncCreate(1)
  \/ SyncReturn(1)

SpecSync == InitSync /\ [][NextSync]_vars

\* ------------------------------- storage written by an earlier revision
\* entries.map((entry) => ({...entry, storyId: entry.storyId ?? storyId}))
\* with every storyId replaced, not only the undefined ones
backfill_all(entries, storyId) ==
  [i \in 1..Len(entries) |-> [entries[i] EXCEPT !.storyId = storyId]]

\* backfill keeping only the entries that have a storyId
backfill_drop(entries, storyId) ==
  SelectSeq(entries, LAMBDA e : e.storyId # Undefined)

\* entries.map((entry) => ({...entry, storyId: entry.storyId ?? storyId})):
\* Undefined stands for undefined and for null, the values ?? replaces
backfill(entries, storyId) ==
  [i \in 1..Len(entries) |->
     IF entries[i].storyId = Undefined
       THEN [entries[i] EXCEPT !.storyId = storyId]
       ELSE entries[i]]

\* the lists of at most MaxLen entries that successive Adds on the first
\* paragraph stored, each with no storyId, with an empty one or with the story's
LegacyLists ==
  UNION {{[i \in 1..n |-> [id |-> f[i].id, storyId |-> f[i].storyId,
                           sectionId |-> 1, order |-> i - 1]] :
            f \in [1..n -> [id : Ids, storyId : {Undefined, "", CurrentStory}]]} :
         n \in 0..MaxLen}

\* the script starts on a story whose list an earlier revision wrote
InitLegacy ==
  /\ stored \in LegacyLists
  /\ widgetHandles = <<>>
  /\ widgets = {}
  /\ nextHandle = 1
  /\ doc = [i \in 1..NumSections |-> i]
  /\ notices = {}
  /\ calls = [p \in Procs |-> IdleCall]
  /\ opCount = 0
  /\ last = NoLast
  /\ assigned = [s \in Sections |-> Null]
  /\ modals = {}
  /\ disposeCalls = <<>>

\* a call of getEntries(): await api.v1.storyStorage.get(KEY_ENTRIES)
GetStart(p) ==
  /\ CanStart(p)
  /\ calls' = [calls EXCEPT ![p] = [IdleCall EXCEPT !.op = "get", !.pc = "ge_read"]]
  /\ opCount' = opCount + 1
  /\ UNCHANGED <<stored, widgetHandles, widgets, nextHandle, doc, notices, last,
                 assigned, modals, disposeCalls>>

\* if (!missingStoryId) return entries
GetReturn(p) ==
  /\ calls[p].pc = "ge_read"
  /\ ~missingStoryId(stored)
  /\ Returned(calls, p,
       [NoLast EXCEPT !.op = "get", !.outcome = "read", !.result = stored])
  /\ UNCHANGED <<stored, widgetHandles, widgets, nextHandle, doc, notices,
                 opCount, assigned, modals, disposeCalls>>

\* missingStoryId: await api.v1.story.id()
GetMissing(p) ==
  /\ calls[p].pc = "ge_read"
  /\ missingStoryId(stored)
  /\ calls' = [calls EXCEPT ![p].pc = "ge_fill", ![p].entries = stored,
                            ![p].missingStoryId = TRUE]
  /\ UNCHANGED <<stored, widgetHandles, widgets, nextHandle, doc, notices,
                 opCount, last, assigned, modals, disposeCalls>>

\* await api.v1.storyStorage.set(KEY_ENTRIES, updated); return updated
GetBackfill(p) ==
  /\ calls[p].pc = "ge_fill"
  /\ LET updated == backfill(calls[p].entries, CurrentStory)
     IN /\ stored' = updated
        /\ Returned(calls, p,
             [NoLast EXCEPT !.op = "get", !.outcome = "backfilled",
                            !.result = updated])
  /\ UNCHANGED <<widgetHandles, widgets, nextHandle, doc, notices, opCount,
                 assigned, modals, disposeCalls>>

\* a call of setEntries(await getEntries()):
\* await api.v1.storyStorage.get(KEY_ENTRIES)
RoundTripStart(p) ==
  /\ CanStart(p)
  /\ calls' = [calls EXCEPT ![p] =
       [IdleCall EXCEPT !.op = "roundtrip", !.pc = "rt_read"]]
  /\ opCount' = opCount + 1
  /\ UNCHANGED <<stored, widgetHandles, widgets, nextHandle, doc, notices, last,
                 assigned, modals, disposeCalls>>

\* if (!missingStoryId) return entries
RoundTripRead(p) ==
  /\ calls[p].pc = "rt_read"
  /\ ~missingStoryId(stored)
  /\ calls' = [calls EXCEPT ![p].pc = "rt_set", ![p].entries = stored]
  /\ UNCHANGED <<stored, widgetHandles, widgets, nextHandle, doc, notices,
                 opCount, last, assigned, modals, disposeCalls>>

\* missingStoryId: await api.v1.story.id()
RoundTripMissing(p) ==
  /\ calls[p].pc = "rt_read"
  /\ missingStoryId(stored)
  /\ calls' = [calls EXCEPT ![p].pc = "rt_fill", ![p].entries = stored,
                            ![p].missingStoryId = TRUE]
  /\ UNCHANGED <<stored, widgetHandles, widgets, nextHandle, doc, notices,
                 opCount, last, assigned, modals, disposeCalls>>

\* await api.v1.storyStorage.set(KEY_ENTRIES, updated); return updated
RoundTripBackfill(p) ==
  /\ calls[p].pc = "rt_fill"
  /\ LET updated == backfill(calls[p].entries, CurrentStory)
     IN /\ stored' = updated
        /\ calls' = [calls EXCEPT ![p].pc = "rt_set", ![p].entries = updated]
  /\ UNCHANGED <<widgetHandles, widgets, nextHandle, doc, notices, opCount,
                 last, assigned, modals, disposeCalls>>

\* setEntries(entries): await api.v1.storyStorage.set(KEY_ENTRIES, entries)
RoundTripSet(p) ==
  /\ calls[p].pc = "rt_set"
  /\ stored' = calls[p].entries
  /\ Returned(calls, p,
       [NoLast EXCEPT !.op = "roundtrip",
                      !.outcome = IF calls[p].missingStoryId THEN "backfilled"
                                                             ELSE "read",
                      !.result = calls[p].entries])
  /\ UNCHANGED <<widgetHandles, widgets, nextHandle, doc, notices, opCount,
                 assigned, modals, disposeCalls>>

\* the hook's callback on such a list: decorations.clearWidgets();
\* widgetHandles.clear(); syncWidgets(): getEntries() finds missingStoryId
HookClearMissing(p) ==
  /\ calls[p].pc = "hk_clear"
  /\ missingStoryId(stored)
  /\ widgets' = {}
  /\ widgetHandles' = <<>>
  /\ calls' = [ItersAfterClear(calls) EXCEPT ![p].pc = "hk_fill",
                                            ![p].entries = stored,
                                            ![p].missingStoryId = TRUE]
  /\ UNCHANGED <<stored, nextHandle, doc, notices, opCount, last, assigned,
                 modals, disposeCalls>>

\* await api.v1.storyStorage.set(KEY_ENTRIES, updated); return updated
HookBackfill(p) ==
  /\ calls[p].pc = "hk_fill"
  /\ LET updated == backfill(calls[p].entries, CurrentStory)
     IN /\ stored' = updated
        /\ calls' = [calls EXCEPT ![p].pc = "sy_scan", ![p].entries = updated]
  /\ UNCHANGED <<widgetHandles, widgets, nextHandle, doc, notices, opCount,
                 last, assigned, modals, disposeCalls>>

\* callbacks one at a time on a list an earlier revision wrote
NextLegacy ==
  \/ GetStart(1)
  \/ GetReturn(1)
  \/ GetMissing(1)
  \/ GetBackfill(1)
  \/ RoundTripStart(1)
  \/ RoundTripRead(1)
  \/ RoundTripMissing(1)
  \/ RoundTripBackfill(1)
  \/ RoundTripSet(1)
  \/ HookStart(1)
  \/ HookClear(1)
  \/ HookClearMissing(1)
  \/ HookBackfill(1)
  \/ SyncScan(1)
  \/ SyncCreate(1)
  \/ SyncReturn(1)

SpecLegacy == InitLegacy /\ [][NextLegacy]_vars

\* addImageHere on such a list: getEntries() finds missingStoryId:
\* await api.v1.story.id()
AddMissing(p) ==
  /\ calls[p].pc = "add_read"
  /\ calls[p].sectionId # Null
  /\ missingStoryId(stored)
  /\ calls' = [calls EXCEPT ![p].pc = "add_fill", ![p].entries = stored,
                            ![p].missingStoryId = TRUE]
  /\ UNCHANGED <<stored, widgetHandles, widgets, nextHandle, doc, notices,
                 opCount, last, assigned, modals, disposeCalls>>

\* await api.v1.storyStorage.set(KEY_ENTRIES, updated); return updated
AddBackfill(p) ==
  /\ calls[p].pc = "add_fill"
  /\ LET updated == backfill(calls[p].entries, CurrentStory)
     IN /\ stored' = updated
        /\ calls' = [calls EXCEPT ![p].pc = "add_write", ![p].entries = updated]
  /\ UNCHANGED <<widgetHandles, widgets, nextHandle, doc, notices, opCount,
                 last, assigned, modals, disposeCalls>>

\* one Add Image Slot on a list an earlier revision or this one wrote
NextLegacyAdd ==
  \/ opCount = 0 /\ \E sel \in Range(doc) \cup {Null} : AddStart(1, sel)
  \/ AddNoSection(1)
  \/ AddRead(1)
  \/ AddMissing(1)
  \/ AddBackfill(1)
  \/ \E newId \in Ids : AddWrite(1, newId)
  \/ AddScan(1)
  \/ AddCreate(1)
  \/ AddSet(1)

SpecLegacyAdd == InitLegacy /\ [][NextLegacyAdd]_vars

\* --------------------------------------------------- getOrderedEntries
\* buildSectionIndex: sectionIndex.set(sections[i].sectionId, i) for i from 0,
\* a later place replacing an earlier one
buildSectionIndex(sections) ==
  [s \in Range(sections) |->
     (CHOOSE i \in 1..Len(sections) :
        /\ sections[i] = s
        /\ \A k \in (i + 1)..Len(sections) : sections[k] # s) - 1]

\* rank with -1 for a paragraph that is not in the scan
rank_first(sections, sectionId) ==
  IF sectionId \in Range(sections)
    THEN buildSectionIndex(sections)[sectionId]
    ELSE -1

\* sectionIndex.get(sectionId) ?? Number.MAX_SAFE_INTEGER (2^53 - 1, here the
\* greatest integer the checker holds: above every place of a scan either way)
rank(sections, sectionId) ==
  IF sectionId \in Range(sections)
    THEN buildSectionIndex(sections)[sectionId]
    ELSE MAX_SAFE_INTEGER

\* the comparator without its second key
compare_rankonly(sections, a, b) ==
  rank(sections, a.sectionId) - rank(sections, b.sectionId)

\* (a, b) => ai !== bi ? ai - bi : a.order - b.order
compare(sections, a, b) ==
  LET ai == rank(sections, a.sectionId)
      bi == rank(sections, b.sectionId)
  IN IF ai # bi THEN ai - bi ELSE a.order - b.order

\* insert putting e before the elements it compares equal to
insert_before(sorted, e, sections) ==
  LET n == Cardinality({i \in 1..Len(sorted) : compare(sections, sorted[i], e) < 0})
  IN SubSeq(sorted, 1, n) \o <<e>> \o SubSeq(sorted, n + 1, Len(sorted))

\* Array.prototype.sort is stable: an element goes after the sorted elements
\* that do not compare greater than it
insert(sorted, e, sections) ==
  LET n == Cardinality({i \in 1..Len(sorted) : compare(sections, sorted[i], e) <= 0})
  IN SubSeq(sorted, 1, n) \o <<e>> \o SubSeq(sorted, n + 1, Len(sorted))

RECURSIVE sortPrefix(_, _, _)
\* the first n elements of the array, sorted
sortPrefix(entries, n, sections) ==
  IF n = 0 THEN <<>>
           ELSE insert(sortPrefix(entries, n - 1, sections), entries[n], sections)

\* [...entries].sort(compare)
sort(entries, sections) == sortPrefix(entries, Len(entries), sections)

\* the lists of at most MaxSortLen entries of different ids, each on any
\* paragraph with any order up to MaxOrder
OrderLists ==
  UNION {{[i \in 1..n |-> [id |-> i, storyId |-> CurrentStory,
                           sectionId |-> f[i].sectionId, order |-> f[i].order]] :
            f \in [1..n -> [sectionId : Sections, order : 0..MaxOrder]]} :
         n \in 0..MaxSortLen}

\* a stored list of entries, read in a document some paragraph of which may go
InitOrder ==
  /\ stored \in OrderLists
  /\ widgetHandles = <<>>
  /\ widgets = {}
  /\ nextHandle = 1
  /\ doc = [i \in 1..NumSections |-> i]
  /\ notices = {}
  /\ calls = [p \in Procs |-> IdleCall]
  /\ opCount = 0
  /\ last = NoLast
  /\ assigned = [s \in Sections |-> Null]
  /\ modals = {}
  /\ disposeCalls = <<>>

\* getOrderedEntries(entries) on the stored list:
\* const sections = await api.v1.document.scan()
OrderedStart(p) ==
  /\ CanStart(p)
  /\ calls' = [calls EXCEPT ![p] =
       [IdleCall EXCEPT !.op = "ordered", !.pc = "oe_sort", !.entries = stored,
                        !.sections = doc]]
  /\ opCount' = opCount + 1
  /\ UNCHANGED <<stored, widgetHandles, widgets, nextHandle, doc, notices, last,
                 assigned, modals, disposeCalls>>

\* buildSectionIndex(sections); return [...entries].sort(...): the copy is
\* sorted, the caller's array (input) stays as it was
OrderedSort(p) ==
  /\ calls[p].pc = "oe_sort"
  /\ Returned(calls, p,
       [NoLast EXCEPT !.op = "ordered", !.outcome = "sorted",
                      !.result = sort(calls[p].entries, calls[p].sections),
                      !.input = calls[p].entries])
  /\ UNCHANGED <<stored, widgetHandles, widgets, nextHandle, doc, notices,
                 opCount, assigned, modals, disposeCalls>>

\* one call of getOrderedEntries, after the document changed or not
NextOrder ==
  \/ opCount = 0 /\ OrderedStart(1)
  \/ OrderedSort(1)
  \/ AllIdle /\ opCount = 0 /\ \E s \in Sections : DeleteSection(s)

SpecOrder == InitOrder /\ [][NextOrder]_vars

\* ------------------------------------------- a widget call that fails
\* The promise of the host's widget call a mutator awaits (createWidget, or a
\* handle's dispose) rejects: the code before the call has run, the call has no
\* effect, and the callback ends there with the exception.
HostCallFails(p) ==
  /\ \/ calls[p].pc \in {"add_create", "mv_delete"}
     \/ calls[p].pc = "rm_dispose" /\ MapHas(widgetHandles, calls[p].entryId)
     \/ calls[p].pc = "mv_dispose"
     \/ calls[p].pc = "cl_loop" /\ calls[p].it < Len(widgetHandles)
  /\ widgetHandles' = IF calls[p].pc = "mv_delete"
                        THEN MapDelete(widgetHandles, calls[p].entryId)
                        ELSE widgetHandles
  /\ Returned(IF calls[p].pc = "mv_delete"
                THEN ItersAfterDelete(calls, widgetHandles, calls[p].entryId)
                ELSE calls,
              p,
              [NoLast EXCEPT !.op = calls[p].op, !.outcome = "failed",
                             !.entryId = IF calls[p].op = "add"
                                           THEN calls[p].entry.id
                                           ELSE calls[p].entryId])
  /\ disposeCalls' =
       CASE calls[p].pc \in {"rm_dispose", "mv_dispose"}
                 /\ MapHas(widgetHandles, calls[p].entryId) ->
              DisposeCalled(disposeCalls, MapGet(widgetHandles, calls[p].entryId))
         [] calls[p].pc = "cl_loop" ->
              DisposeCalled(disposeCalls, widgetHandles[calls[p].it + 1].handle)
         [] OTHER -> disposeCalls
  /\ UNCHANGED <<stored, widgets, nextHandle, doc, notices, opCount, assigned,
                 modals>>

\* callbacks one at a time, any widget call of a mutator failing or not
NextFail ==
  \/ Next
  \/ HostCallFails(1)

SpecFail == Init /\ [][NextFail]_vars

\* ------------------------------ the revision that asks before it deletes
\* RemoveClick calling onRemove(entry.id) at once, with no modal
RemoveClick_noconfirm(p, w) ==
  /\ CanStart(p)
  /\ w \in widgets
  /\ calls' = [calls EXCEPT ![p] =
       [IdleCall EXCEPT !.op = "remove", !.pc = "rm_read", !.entryId = w.entryId]]
  /\ opCount' = opCount + 1
  /\ UNCHANGED <<stored, widgetHandles, widgets, nextHandle, doc, notices, last,
                 assigned, modals, disposeCalls>>

\* the x button of a widget the host shows: await api.v1.ui.modal.open(...);
\* the modal's buttons close over entry.id; the button's callback returns
RemoveClick(p, w) ==
  /\ CanStart(p)
  /\ w \in widgets
  /\ modals' = modals \cup
       {[m |-> opCount + 1, entryId |-> w.entryId, state |-> "open"]}
  /\ opCount' = opCount + 1
  /\ last' = [NoLast EXCEPT !.op = "click", !.outcome = "opened",
                            !.entryId = w.entryId]
  /\ UNCHANGED <<stored, widgetHandles, widgets, nextHandle, doc, notices, calls,
                 assigned, disposeCalls>>

\* the modal's Cancel button: await modal.close()
ModalCancel(m) ==
  /\ m \in modals
  /\ m.state = "open"
  /\ modals' = modals \ {m}
  /\ last' = [NoLast EXCEPT !.op = "cancel", !.outcome = "closed",
                            !.entryId = m.entryId]
  /\ UNCHANGED <<stored, widgetHandles, widgets, nextHandle, doc, notices, calls,
                 opCount, assigned, disposeCalls>>

\* the modal's Delete button: await onRemove(entry.id), that is removeEntry:
\* ensurePerms
ModalDelete(p, m) ==
  /\ FreeProc(p)
  /\ m \in modals
  /\ m.state = "open"
  /\ modals' = (modals \ {m}) \cup {[m EXCEPT !.state = "deleting"]}
  /\ calls' = [calls EXCEPT ![p] =
       [IdleCall EXCEPT !.op = "remove", !.pc = "rm_read", !.entryId = m.entryId,
                        !.button = m.m]]
  /\ UNCHANGED <<stored, widgetHandles, widgets, nextHandle, doc, notices, opCount,
                 last, assigned, disposeCalls>>

\* onRemove has returned: await modal.close(); the Delete callback returns
ModalClose(m) ==
  /\ m \in modals
  /\ m.state = "deleting"
  /\ \A q \in Procs : ~(calls[q].op = "remove" /\ calls[q].button = m.m)
  /\ modals' = modals \ {m}
  /\ last' = [NoLast EXCEPT !.op = "delete", !.outcome = "closed",
                            !.entryId = m.entryId]
  /\ UNCHANGED <<stored, widgetHandles, widgets, nextHandle, doc, notices, calls,
                 opCount, assigned, disposeCalls>>

\* no Delete callback is waiting for its removeEntry or to close its modal
NoDeleting == \A m \in modals : m.state = "open"

\* the callbacks a user or the host starts in this revision
StartModal(p) ==
  \/ \E sel \in Range(doc) \cup {Null} : AddStart(p, sel)
  \/ ClearStart(p)
  \/ \E w \in widgets : RemoveClick(p, w)
  \/ \E w \in widgets : \E direction \in {"up", "down"} : MoveStart(p, w, direction)
  \/ HookStart(p)

\* callbacks one at a time, the x button opening the modal
NextModal ==
  \/ AllIdle /\ NoDeleting /\ StartModal(1)
  \/ AllIdle /\ NoDeleting /\ HostEvent
  \/ AllIdle /\ NoDeleting /\ \E m \in modals : ModalCancel(m)
  \/ NoDeleting /\ \E m \in modals : ModalDelete(1, m)
  \/ Step(1)
  \/ \E m \in modals : ModalClose(m)

SpecModal == Init /\ [][NextModal]_vars

\* ------------------------------------------------------------ properties
\* the orders of the entries of a list anchored to a paragraph
OrdersIn(entries, s) ==
  {entries[i].order : i \in {k \in 1..Len(entries) : entries[k].sectionId = s}}

\* one more than the greatest of them, 0 when there is none
FreshOrder(entries, s) ==
  IF OrdersIn(entries, s) = {} THEN 0 ELSE 1 + Max(OrdersIn(entries, s))

\* the paragraph next to s in a scan, Null when s has none in that direction
Neighbour(sections, s, direction) ==
  IF \E i \in 1..Len(sections) : sections[i] = s
    THEN LET i == CHOOSE k \in 1..Len(sections) : sections[k] = s
         IN IF direction = "up"
              THEN (IF i = 1 THEN Null ELSE sections[i - 1])
              ELSE (IF i = Len(sections) THEN Null ELSE sections[i + 1])
    ELSE Null

\* chain p takes a step
Moves(p) == calls'[p] # calls[p]

\* C1: callbacks one at a time.  The entry an Add Image Slot stores has order 0
\* when no stored entry is anchored to its paragraph and otherwise one more than
\* the greatest order stored there; and when the callback before it was an Add on
\* the same paragraph, its order is greater than that Add's.
C1_AddOrder ==
  [][\A p \in Procs :
       (calls[p].pc = "add_write" /\ calls'[p].pc = "add_scan") =>
         LET new == stored'[Len(stored')]
         IN /\ new.sectionId = calls[p].sectionId
            /\ new.order = FreshOrder(stored, new.sectionId)
            /\ (last.op = "add" /\ last.outcome = "added"
                  /\ last.sectionId = new.sectionId) => new.order > last.order]_vars

\* an Add has returned that found its paragraph already holding a slot
C1_Witness ==
  /\ last.op = "add"
  /\ last.outcome = "added"
  /\ last.order >= 1

\* C2: callbacks one at a time.  moveEntry(x, direction) with x stored and a
\* paragraph next to x's in that direction in the scan does not return early, and
\* its write leaves every entry of id x on that paragraph with order one more
\* than the greatest order stored there before (0 when none), the id kept.
C2_MoveRehomes ==
  [][\A p \in Procs :
       LET x == calls[p].entryId
           target == Neighbour(doc, find(stored, x).sectionId, calls[p].direction)
       IN (/\ calls[p].pc \in {"mv_scan", "mv_write"}
           /\ Moves(p)
           /\ x \in EntryIds(stored)
           /\ target # Null) =>
            IF calls[p].pc = "mv_scan"
              THEN calls'[p].pc = "mv_write" /\ stored' = stored
              ELSE /\ calls'[p].pc = "mv_dispose"
                   /\ Len(stored') = Len(stored)
                   /\ \A i \in 1..Len(stored) :
                        stored[i].id = x =>
                          /\ stored'[i].id = x
                          /\ stored'[i].sectionId = target
                          /\ stored'[i].order = FreshOrder(stored, target)]_vars

\* a Move has returned that put its slot on a paragraph already holding one
C2_Witness ==
  /\ last.op = "move"
  /\ last.outcome = "moved"
  /\ last.order >= 1
  /\ \E i \in 1..Len(stored) :
       /\ stored[i].id = last.entryId
       /\ stored[i].sectionId = last.sectionId
       /\ stored[i].order = last.order

\* C3: callbacks one at a time.  clearEntries leaves the map as it is until it
\* returns, and when it returns the stored list is empty, the map is empty and
\* no handle the map held is a live widget.
C3_ClearAll ==
  [][\A p \in Procs :
       (calls[p].op = "clear" /\ Moves(p)) =>
         IF calls'[p].op = "clear"
           THEN widgetHandles' = widgetHandles
           ELSE /\ stored' = <<>>
                /\ widgetHandles' = <<>>
                /\ \A i \in 1..Len(widgetHandles) :
                     widgetHandles[i].handle \notin {w.h : w \in widgets'}]_vars

\* a Clear-All has returned that took two handles out of the map
C3_Witness ==
  /\ last.op = "clear"
  /\ last.cleared >= 2
  /\ stored = <<>>
  /\ widgetHandles = <<>>

\* C4: removeEntry(id) that finds no entry of that id in the list it read
\* changes neither the stored list nor the host's widgets nor the map, and
\* returns right after the read.
C4_RemoveAbsent ==
  [][\A p \in Procs :
       (/\ calls[p].op = "remove"
        /\ Moves(p)
        /\ \/ calls[p].pc = "rm_read"
           \/ calls[p].entryId \notin EntryIds(calls[p].entries)) =>
         /\ UNCHANGED <<stored, widgets, widgetHandles, nextHandle>>
         /\ calls[p].pc = "rm_write" => calls'[p] = IdleCall]_vars

\* a removeEntry has returned for an id that is not stored while the map holds
\* a handle under it, and the handle is still there
C4_Witness ==
  /\ last.op = "remove"
  /\ last.outcome = "notFound"
  /\ last.entryId \notin EntryIds(stored)
  /\ MapHas(widgetHandles, last.entryId)
  /\ MapGet(widgetHandles, last.entryId) \in LiveHandles

\* C5: moveEntry(id, direction) that finds no entry of that id in the list it
\* read changes neither the stored list nor the host's widgets nor the map, and
\* returns right after the read.
C5_MoveAbsent ==
  [][\A p \in Procs :
       (/\ calls[p].op = "move"
        /\ Moves(p)
        /\ \/ calls[p].pc = "mv_read"
           \/ calls[p].entryId \notin EntryIds(calls[p].entries)) =>
         /\ UNCHANGED <<stored, widgets, widgetHandles, nextHandle>>
         /\ calls[p].pc = "mv_scan" => calls'[p] = IdleCall]_vars

\* a moveEntry has returned for an id that is not stored
C5_Witness ==
  /\ last.op = "move"
  /\ last.outcome = "notFound"
  /\ last.entryId \notin EntryIds(stored)

\* C6: an addImageHere whose selection gives no paragraph id returns with a
\* toast, having changed neither the stored list nor the host's widgets nor the
\* map.
C6_AddNoSection ==
  [][\A p \in Procs :
       (/\ calls[p].op = "add"
        /\ calls[p].sectionId = Null
        /\ Moves(p)) =>
         /\ UNCHANGED <<stored, widgets, widgetHandles, nextHandle>>
         /\ calls'[p] = IdleCall
         /\ last'.op = "add"
         /\ last'.outcome = "toast"]_vars

\* an Add has returned with the toast while a slot was stored
C6_Witness ==
  /\ last.op = "add"
  /\ last.outcome = "toast"
  /\ stored # <<>>
  /\ widgetHandles # <<>>

\* C7: the stored entries have pairwise distinct ids.
C7_UniqueIds ==
  \A i \in 1..Len(stored) : \A k \in 1..Len(stored) :
    i # k => stored[i].id # stored[k].id

\* C8: an Add's write replaces the stored list by the list that Add read with
\* its new entry appended, whatever was stored in between.
C8_AddOverwrites ==
  [][\A p \in Procs :
       (calls[p].pc = "add_write" /\ calls'[p].pc = "add_scan") =>
         stored' = Append(calls[p].entries, calls'[p].entry)]_vars

\* two Adds, and nothing else, have run to completion, each with the widget of
\* its own new entry, and only one of the two entries is stored
C8_Witness ==
  /\ opCount = 2
  /\ AllIdle
  /\ last.op = "add"
  /\ last.outcome = "added"
  /\ nextHandle = 3
  /\ \E v \in widgets : \E w \in widgets : v.entryId # w.entryId
  /\ Len(stored) = 1

\* C9: an id that is not stored becomes stored only by the write of an Add
\* whose new entry carries it.
C9_NoResurrection ==
  [][\A id \in Ids :
       (id \notin EntryIds(stored) /\ id \in EntryIds(stored')) =>
         \E p \in Procs :
           /\ calls[p].pc = "add_write"
           /\ calls'[p].pc = "add_scan"
           /\ calls'[p].entry.id = id]_vars

\* C10: callbacks one at a time.  When the scripts-loaded callback returns,
\* the keys of the map are the stored ids and every stored entry has exactly
\* one live widget of its id, anchored to its sectionId.
C10_HookRebuilds ==
  [][\A p \in Procs :
       (calls[p].op = "hook" /\ calls'[p].op = "idle") =>
         /\ MapKeys(widgetHandles') = EntryIds(stored')
         /\ \A i \in 1..Len(stored') :
              LET ws == {w \in widgets' : w.entryId = stored'[i].id}
              IN /\ Cardinality(ws) = 1
                 /\ \A w \in ws : w.sectionId = stored'[i].sectionId]_vars

C11_SyncDiff ==
  [][\A p \in Procs :
       (calls[p].op = "sync" /\ Moves(p)) =>
         LET ids == EntryIds(stored)
         IN /\ stored' = stored
            /\ \A w \in widgets \ widgets' :
                 /\ w.entryId \notin ids
                 /\ MapGet(widgetHandles, w.entryId) = w.h
            /\ \A w \in widgets' \ widgets :
                 /\ w.entryId \in ids
                 /\ ~MapHas(widgetHandles', w.entryId)
            /\ \A i \in 1..Len(widgetHandles) :
                 widgetHandles[i].key \in ids =>
                   /\ MapGet(widgetHandles', widgetHandles[i].key)
                        = widgetHandles[i].handle
                   /\ widgetHandles[i].handle \in LiveHandles =>
                        widgetHandles[i].handle \in {w.h : w \in widgets'}
            /\ calls'[p].op = "idle" =>
                 /\ MapKeys(widgetHandles') = ids
                 /\ Cardinality({w \in widgets' : w.h >= FirstNew})
                      = Cardinality({i \in 1..Len(stored) :
                           MapGet(widgetHandles', stored[i].id) >= FirstNew})]_vars

\* the list with the current story id on the entries that have no storyId
Filled(entries) ==
  [i \in 1..Len(entries) |->
     [id |-> entries[i].id,
      storyId |-> IF entries[i].storyId = Undefined THEN CurrentStory
                                                    ELSE entries[i].storyId,
      sectionId |-> entries[i].sectionId,
      order |-> entries[i].order]]

\* some entry of the list has no storyId (undefined or null)
LacksStoryId(entries) == \E i \in 1..Len(entries) : entries[i].storyId = Undefined

\* C12 as stated: no step of the scripts-loaded callback changes the stored
\* list, whatever the list, entries with no storyId included.
C12_HookKeepsStored ==
  [][\A p \in Procs : (calls[p].op = "hook" /\ Moves(p)) => stored' = stored]_vars

\* C12 as amended: callbacks one at a time, backfilling getEntries.  A step of
\* the scripts-loaded callback leaves the stored list as it is when every entry
\* has a storyId; when some entry has none, the only change it makes is to
\* fill the current story id in on those entries, and the callback returns with
\* no such entry left.
C12_HookOnlyBackfills ==
  [][\A p \in Procs :
       (calls[p].op = "hook" /\ Moves(p)) =>
         /\ stored' \in {stored, Filled(stored)}
         /\ ~LacksStoryId(stored) => stored' = stored
         /\ calls'[p].op = "idle" => ~LacksStoryId(stored')]_vars

\* the scripts-loaded callback has returned after its read found entries with
\* no storyId: the stored list is the one it filled in and made widgets for
C12_Witness ==
  /\ last.op = "hook"
  /\ last.outcome = "backfilled"
  /\ stored = last.result
  /\ \E i \in 1..Len(stored) : stored[i].storyId = CurrentStory
  /\ \A i \in 1..Len(stored) : stored[i].storyId # ""
  /\ widgets # {}

\* C17: callbacks one at a time.  No step of setEntries(getEntries()) changes a
\* stored list in which every entry has a storyId; on a list with entries that
\* have none, the only change is the backfill, and when the call returns the
\* stored list is the list getEntries returned, with no such entry left.
C17_RoundTrip ==
  [][\A p \in Procs :
       (calls[p].op = "roundtrip" /\ Moves(p)) =>
         /\ stored' \in {stored, Filled(stored)}
         /\ ~LacksStoryId(stored) => stored' = stored
         /\ calls'[p].op = "idle" =>
              /\ stored' = last'.result
              /\ ~LacksStoryId(stored')]_vars

\* a setEntries(getEntries()) has returned whose getEntries backfilled: the list
\* it returned is stored, one entry with the storyId it had, another with the
\* current one
C17_Witness ==
  /\ last.op = "roundtrip"
  /\ last.outcome = "backfilled"
  /\ stored = last.result
  /\ Len(stored) = MaxLen
  /\ \E i \in 1..Len(stored) : stored[i].storyId = ""
  /\ \E i \in 1..Len(stored) : stored[i].storyId = CurrentStory

\* C18: callbacks one at a time, backfilling getEntries.  A getEntries that
\* finds an entry with no storyId returns the list it read with the current
\* story id on exactly the entries that had no storyId, every other storyId and
\* every id, sectionId and order as it was, the sequence kept, and the stored
\* list is then the list it returns.
C18_Backfill ==
  [][\A p \in Procs :
       (calls[p].op = "get" /\ calls[p].pc = "ge_fill" /\ Moves(p)) =>
         LET before == stored
             after == last'.result
         IN /\ calls'[p].op = "idle"
            /\ Len(after) = Len(before)
            /\ \A i \in 1..Len(before) :
                 /\ after[i].id = before[i].id
                 /\ after[i].sectionId = before[i].sectionId
                 /\ after[i].order = before[i].order
                 /\ after[i].storyId =
                      (IF before[i].storyId = Undefined THEN CurrentStory
                                                        ELSE before[i].storyId)
            /\ stored' = after]_vars

\* a getEntries has returned a backfilled list in which one entry kept the
\* storyId it had and another was given the current one
C18_Witness ==
  /\ last.op = "get"
  /\ last.outcome = "backfilled"
  /\ stored = last.result
  /\ \E i \in 1..Len(stored) : stored[i].storyId = ""
  /\ \E i \in 1..Len(stored) : stored[i].storyId = CurrentStory

\* the place of a paragraph in a scan, 0 when it is not there
PlaceIn(sections, s) ==
  IF \E i \in 1..Len(sections) : sections[i] = s
    THEN CHOOSE i \in 1..Len(sections) : sections[i] = s
    ELSE 0

\* how many times an entry is in a list
Count(entries, e) == Cardinality({i \in 1..Len(entries) : entries[i] = e})

\* two lists hold the same entries, each as many times
SameEntries(a, b) ==
  /\ Len(a) = Len(b)
  /\ \A e \in Range(a) \cup Range(b) : Count(a, e) = Count(b, e)

\* the entries of a list that compare equal to e under a scan, in their order
EqualTo(entries, e, scan) ==
  SelectSeq(entries, LAMBDA x : /\ PlaceIn(scan, x.sectionId) = PlaceIn(scan, e.sectionId)
                                /\ x.order = e.order)

\* C14: getOrderedEntries returns the entries it was given, each once, and of
\* two entries whose paragraphs are both in the scan the one on the paragraph
\* earlier in the scan comes first, two entries on the same paragraph coming in
\* ascending order value.
C14_DocumentOrder ==
  [][\A p \in Procs :
       (calls[p].pc = "oe_sort" /\ Moves(p)) =>
         LET r == last'.result
             scan == calls[p].sections
         IN /\ SameEntries(calls[p].entries, r)
            /\ \A i \in 1..Len(r) : \A k \in (i + 1)..Len(r) :
                 (PlaceIn(scan, r[i].sectionId) # 0
                    /\ PlaceIn(scan, r[k].sectionId) # 0) =>
                   /\ PlaceIn(scan, r[i].sectionId) <= PlaceIn(scan, r[k].sectionId)
                   /\ r[i].sectionId = r[k].sectionId => r[i].order <= r[k].order]_vars

\* a getOrderedEntries has returned a list that is not in the order it was
\* given: later paragraph after earlier, and on one paragraph greater order last
C14_Witness ==
  /\ last.op = "ordered"
  /\ Len(last.result) = MaxSortLen
  /\ last.result # last.input
  /\ last.result[1].sectionId # last.result[2].sectionId
  /\ last.result[2].sectionId = last.result[3].sectionId
  /\ last.result[2].order < last.result[3].order
  /\ \A i \in 1..Len(last.result) : last.result[i].sectionId \in Range(doc)

\* C15: in the result of getOrderedEntries every entry whose paragraph is not
\* in the scan comes after every entry whose paragraph is, whatever the orders.
C15_OrphansLast ==
  [][\A p \in Procs :
       (calls[p].pc = "oe_sort" /\ Moves(p)) =>
         LET r == last'.result
             scan == calls[p].sections
         IN \A i \in 1..Len(r) : \A k \in 1..Len(r) :
              (PlaceIn(scan, r[i].sectionId) # 0
                 /\ PlaceIn(scan, r[k].sectionId) = 0) => i < k]_vars

\* a getOrderedEntries has returned a list whose first entry was given after an
\* entry of a paragraph that is gone from the document and has a greater order
C15_Witness ==
  /\ last.op = "ordered"
  /\ Len(last.result) >= 2
  /\ last.input[1].sectionId \notin Range(doc)
  /\ last.input[2].sectionId \in Range(doc)
  /\ last.input[1].order < last.input[2].order
  /\ last.result[1] = last.input[2]

\* C16: getOrderedEntries is stable and sorts a copy.  The result holds the
\* entries of the input; the entries with the same rank in the scan (or all
\* not in it) and the same order value come in the result in the sequence they
\* had in the input; and the array the caller passed is as it was.
C16_StableSort ==
  [][\A p \in Procs :
       (calls[p].pc = "oe_sort" /\ Moves(p)) =>
         LET r == last'.result
             scan == calls[p].sections
         IN /\ SameEntries(calls[p].entries, r)
            /\ \A e \in Range(r) :
                 EqualTo(r, e, scan) = EqualTo(calls[p].entries, e, scan)
            /\ last'.input = calls[p].entries]_vars

\* a getOrderedEntries has returned a reordered list in which two entries of
\* different ids that compare equal kept the order they were given in
C16_Witness ==
  /\ last.op = "ordered"
  /\ Len(last.result) = MaxSortLen
  /\ last.result # last.input
  /\ last.input = stored
  /\ last.result[2].id # last.result[3].id
  /\ last.result[2].sectionId = last.result[3].sectionId
  /\ last.result[2].order = last.result[3].order
  /\ last.input[1] = last.result[2]
  /\ last.input[2] = last.result[1]
  /\ last.input[3] = last.result[3]

\* C19: callbacks one at a time.  No step of a Move changes the id, the storyId,
\* the stableSlotKey or the placeholder id of a stored slot: the slot it is
\* called for is stored afterwards under the same id with the same key, and so
\* is every other slot.
C19_StableIdentity ==
  [][\A p \in Procs :
       (calls[p].op = "move" /\ Moves(p)) =>
         /\ EntryIds(stored') = EntryIds(stored)
         /\ Len(stored') = Len(stored)
         /\ \A i \in 1..Len(stored) :
              /\ stored'[i].id = stored[i].id
              /\ stored'[i].storyId = stored[i].storyId
              /\ stableSlotKey(stored'[i]) = stableSlotKey(stored[i])
              /\ placeholderId(stored'[i]) = placeholderId(stored[i])]_vars

\* an Add and two Moves have run: the slot is back on the paragraph it was
\* added to, under the key the Add gave it
C19_Witness ==
  /\ opCount = 3
  /\ AllIdle
  /\ last.op = "move"
  /\ last.outcome = "moved"
  /\ Len(stored) = 1
  /\ stored[1].id = last.entryId
  /\ stored[1].sectionId = last.sectionId
  /\ assigned[stored[1].sectionId] = 0
  /\ stableSlotKey(stored[1]) = <<CurrentStory, ":", last.entryId>>

\* C20: when the dispose event of a widget the host disposed is delivered to the
\* widget's onChange, the map afterwards holds neither that widget's handle nor
\* any handle under its slot id; a change event leaves the map as it is.
C20_DisposeUnmaps ==
  [][/\ \A n \in notices :
          n \notin notices' =>
            /\ ~MapHas(widgetHandles', n.entryId)
            /\ \A i \in 1..Len(widgetHandles') : widgetHandles'[i].handle # n.h
     /\ (last' # last /\ last'.op = "onChange" /\ last'.outcome = "change") =>
          widgetHandles' = widgetHandles]_vars

\* a paragraph was deleted, the dispose event of its widget has been delivered
\* and took the slot's handle out of the map, the slot still stored; a change
\* event of another widget, whose handle is still in the map, came last
C20_Witness ==
  /\ last.op = "onChange"
  /\ Len(doc) < NumSections
  /\ notices = {}
  /\ \E i \in 1..Len(stored) :
       /\ stored[i].sectionId \notin Range(doc)
       /\ ~MapHas(widgetHandles, stored[i].id)
  /\ MapGet(widgetHandles, last.entryId) \in LiveHandles

\* C21: callbacks one at a time.  Neither the deletion of a paragraph, nor the
\* delivery of a dispose event to a widget's onChange, nor any step of the
\* scripts-loaded callback's sync changes the stored list: the entries anchored
\* to a paragraph that is gone from the document stay stored.
C21_OrphansStayStored ==
  [][(\/ doc' # doc
      \/ notices' # notices
      \/ \E p \in Procs : calls[p].op = "hook" /\ Moves(p)) =>
       /\ stored' = stored
       /\ \A i \in 1..Len(stored) :
            stored[i].sectionId \notin Range(doc') => stored[i] \in Range(stored')]_vars

\* a paragraph holding a slot was deleted, the dispose event of the slot's
\* widget was delivered and the scripts-loaded callback then ran: the slot is
\* still stored, anchored to the paragraph that is gone
C21_Witness ==
  /\ last.op = "hook"
  /\ AllIdle
  /\ Len(doc) < NumSections
  /\ notices = {}
  /\ \E i \in 1..Len(stored) : stored[i].sectionId \notin Range(doc)

\* C22: callbacks one at a time.  The widget a callback creates is anchored to
\* its slot's paragraph, and with the scan that creation works from, its up
\* arrow is enabled exactly when the paragraph is in the scan and not the first
\* of it, its down arrow exactly when it is in the scan and not the last of it.
C22_ArrowsAtBoundaries ==
  [][\A p \in Procs :
       Moves(p) =>
         \A w \in widgets' \ widgets :
           LET scan == calls[p].sections
               place == PlaceIn(scan, w.sectionId)
           IN /\ w.sectionId = calls'[p].entry.sectionId
              /\ w.canMoveUp <=> (place # 0 /\ place # 1)
              /\ w.canMoveDown <=> (place # 0 /\ place # Len(scan))]_vars

\* the scripts-loaded callback has made a widget on the first paragraph, up
\* disabled and down enabled, and one for a slot whose paragraph is gone, both
\* arrows disabled
C22_Witness ==
  /\ last.op = "hook"
  /\ AllIdle
  /\ \E v \in widgets : \E w \in widgets :
       /\ v.sectionId = doc[1]
       /\ ~v.canMoveUp
       /\ v.canMoveDown
       /\ w.sectionId \notin Range(doc)
       /\ ~w.canMoveUp
       /\ ~w.canMoveDown

\* C23: the revision with the modal, callbacks one at a time.  The click on a
\* widget's x button opens a modal and changes neither the stored list nor the
\* map nor the widgets; removeEntry runs only for a modal whose Delete button
\* was pressed, for that modal's slot; and Cancel closes its modal with the
\* stored list and the map as they were.
C23_ConfirmBeforeRemove ==
  [][/\ (\E m \in modals' \ modals : m.state = "open") =>
          UNCHANGED <<stored, widgetHandles, widgets, calls>>
     /\ \A p \in Procs :
          (Moves(p) /\ (calls[p].op = "remove" \/ calls'[p].op = "remove")) =>
            LET c == IF calls[p].op = "remove" THEN calls[p] ELSE calls'[p]
            IN \E m \in modals' :
                 /\ m.state = "deleting"
                 /\ m.m = c.button
                 /\ m.entryId = c.entryId
     /\ \A m \in modals :
          (m.state = "open" /\ \A n \in modals' : n.m # m.m) =>
            UNCHANGED <<stored, widgetHandles, widgets, calls>>]_vars

\* the x of two slots was clicked and Delete pressed in one of the two modals:
\* that slot is gone from the list and its modal closed, the other slot, whose
\* modal is still open, is stored with its handle and its widget
C23_Witness ==
  /\ last.op = "delete"
  /\ last.entryId \notin EntryIds(stored)
  /\ \E m \in modals :
       /\ m.state = "open"
       /\ m.entryId \in EntryIds(stored)
       /\ MapGet(widgetHandles, m.entryId) \in LiveHandles

\* C24: callbacks one at a time.  While moveEntry(x, direction) runs for a
\* stored x whose paragraph has no neighbour in that direction in the document
\* (first paragraph and up, last and down, or a paragraph that is not in the
\* scan), its steps change neither the stored list nor the widgets nor the map,
\* and it returns after the scan without a write.
C24_MoveAtEdge ==
  [][\A p \in Procs :
       LET x == calls[p].entryId
       IN (/\ calls[p].pc \in {"mv_read", "mv_scan", "mv_write"}
           /\ Moves(p)
           /\ x \in EntryIds(stored)
           /\ Neighbour(doc, find(stored, x).sectionId, calls[p].direction) = Null) =>
            /\ UNCHANGED <<stored, widgets, widgetHandles, nextHandle>>
            /\ calls'[p].pc # "mv_dispose"
            /\ calls[p].pc = "mv_write" => calls'[p] = IdleCall]_vars

\* a moveEntry has returned at the edge of the document: the arrow was enabled
\* when the widget was made, a paragraph was deleted since, and the slot is
\* stored where it was, its widget live and mapped
C24_Witness ==
  /\ last.op = "move"
  /\ last.outcome = "noTarget"
  /\ Len(doc) < NumSections
  /\ find(stored, last.entryId).sectionId \in {doc[1], doc[Len(doc)]}
  /\ MapGet(widgetHandles, last.entryId) \in LiveHandles

\* a list without its i-th entry
Without(entries, i) ==
  [k \in 1..(Len(entries) - 1) |-> IF k < i THEN entries[k] ELSE entries[k + 1]]

\* C25: callbacks one at a time.  removeEntry(x) for a stored x writes the
\* stored list once, and the list it writes is the list before with one entry
\* of id x taken out, every other entry in its place; the only widget it
\* disposes is the one of the handle the map holds under x, the only change to
\* the map is that this handle goes, and when it returns the map has no handle
\* under x.
C25_RemoveOnlyX ==
  [][\A p \in Procs :
       LET x == calls[p].entryId
       IN (calls[p].op = "remove" /\ Moves(p) /\ x \in EntryIds(calls[p].entries)) =>
            /\ IF calls[p].pc = "rm_write"
                 THEN \E i \in 1..Len(stored) :
                        /\ stored[i].id = x
                        /\ stored' = Without(stored, i)
                 ELSE stored' = stored
            /\ widgets' \subseteq widgets
            /\ \A w \in widgets \ widgets' : w.h = MapGet(widgetHandles, x)
            /\ nextHandle' = nextHandle
            /\ widgetHandles' \in {widgetHandles, MapDelete(widgetHandles, x)}
            /\ calls'[p].op = "idle" =>
                 /\ ~MapHas(widgetHandles', x)
                 /\ x \notin EntryIds(stored')]_vars

\* what the widget and map steps of an Add do: one new widget for the new
\* entry, anchored to the selection's paragraph, and its handle in the map
\* under the new id, every other key as it was
AddWidgetSteps(p) ==
  /\ IF calls[p].pc = "add_create"
       THEN \E w \in widgets' \ widgets :
              /\ widgets' = widgets \cup {w}
              /\ w.sectionId = calls[p].sectionId
              /\ w.entryId = calls[p].entry.id
              /\ w.h = calls'[p].handle
       ELSE widgets' = widgets
  /\ IF calls[p].pc = "add_set"
       THEN /\ MapGet(widgetHandles', calls[p].entry.id) = calls[p].handle
            /\ calls[p].handle \in LiveHandles
            /\ \A k \in MapKeys(widgetHandles) \cup MapKeys(widgetHandles') :
                 k # calls[p].entry.id =>
                   MapGet(widgetHandles', k) = MapGet(widgetHandles, k)
       ELSE widgetHandles' = widgetHandles

\* the step of an Add that writes its new entry: the list is the list before
\* with one entry appended, on the selection's paragraph, of the current story
AddAppends(p) ==
  /\ Len(stored') = Len(stored) + 1
  /\ SubSeq(stored', 1, Len(stored)) = stored
  /\ stored'[Len(stored')].sectionId = calls[p].sectionId
  /\ stored'[Len(stored')].storyId = CurrentStory
  /\ stored'[Len(stored')] = calls'[p].entry

\* C26 as stated: an Add that is not overlapped, on any stored list.  Its
\* only change to the stored list is to append its new entry, on the
\* selection's paragraph and of the current story, every entry stored before
\* unchanged and in place; it creates one widget, anchored to that paragraph,
\* and maps its handle under the new id.
C26_AddOnlyAppends ==
  [][\A p \in Procs :
       (calls[p].op = "add" /\ calls[p].sectionId # Null /\ Moves(p)) =>
         /\ IF calls[p].pc = "add_write" THEN AddAppends(p) ELSE stored' = stored
         /\ AddWidgetSteps(p)]_vars

\* C26 as amended: an Add that is not overlapped, on any stored list, with the
\* backfilling getEntries.  Before it appends, its read fills the current
\* story id in on the entries that have no storyId and changes nothing else;
\* then it appends its new entry, on the selection's paragraph and of the
\* current story, after the entries stored before, which stay in place; it
\* creates one widget, anchored to that paragraph, and maps its handle under
\* the new id.
C26_AddAppendsAfterBackfill ==
  [][\A p \in Procs :
       (calls[p].op = "add" /\ calls[p].sectionId # Null /\ Moves(p)) =>
         /\ CASE calls[p].pc = "add_write" -> AddAppends(p) /\ ~LacksStoryId(stored)
              [] calls[p].pc = "add_fill" -> stored' = Filled(stored)
              [] OTHER -> stored' = stored
         /\ AddWidgetSteps(p)]_vars

\* an Add has returned whose read found the one stored entry with no storyId:
\* that entry is stored first, now of the current story, the new entry after
\* it, and the new entry's widget is live and mapped
C26_Witness ==
  /\ last.op = "add"
  /\ last.outcome = "added"
  /\ last.backfilled
  /\ Len(stored) = 2
  /\ stored[1].storyId = CurrentStory
  /\ stored[2].sectionId = last.sectionId
  /\ stored[2].id = last.entryId
  /\ stored[2].id # stored[1].id
  /\ MapGet(widgetHandles, last.entryId) \in LiveHandles

\* C27: callbacks one at a time.  A moveEntry(x, direction) that has a target
\* writes the stored list once, changing one entry, of id x, which keeps its
\* place and its id, and no other entry; it disposes the widget of the handle
\* the map holds under x and no other, creates one widget, for x on the target
\* paragraph, and leaves every other key of the map as it was, the new handle
\* under x when it returns.
C27_MoveOnlyX ==
  [][\A p \in Procs :
       LET x == calls[p].entryId
       IN (calls[p].op = "move" /\ Moves(p)
             /\ calls[p].pc \in {"mv_write", "mv_dispose", "mv_delete", "mv_set"}
             /\ ~(calls[p].pc = "mv_write" /\ calls'[p].pc = "idle")) =>
            /\ IF calls[p].pc = "mv_write"
                 THEN /\ Len(stored') = Len(stored)
                      /\ \E i \in 1..Len(stored) :
                           /\ stored[i].id = x
                           /\ stored'[i].id = x
                           /\ \A k \in 1..Len(stored) : k # i => stored'[k] = stored[k]
                 ELSE stored' = stored
            /\ calls[p].pc = "mv_dispose" =>
                 /\ MapGet(widgetHandles, x) \in LiveHandles
                 /\ calls'[p].pc = "mv_delete"
                 /\ widgets' = HostDispose(widgets, MapGet(widgetHandles, x))
            /\ calls[p].pc = "mv_delete" =>
                 \E w \in widgets' \ widgets :
                   /\ widgets' = widgets \cup {w}
                   /\ w.entryId = x
                   /\ w.sectionId = calls[p].entry.sectionId
                   /\ w.h = calls'[p].handle
            /\ calls[p].pc \in {"mv_write", "mv_set"} => widgets' = widgets
            /\ \A k \in MapKeys(widgetHandles) \cup MapKeys(widgetHandles') :
                 k # x => MapGet(widgetHandles', k) = MapGet(widgetHandles, k)
            /\ calls[p].pc = "mv_set" =>
                 /\ MapGet(widgetHandles', x) = calls[p].handle
                 /\ calls[p].handle \in LiveHandles]_vars

\* the stored list shows the write of the mutator that chain p runs
Written(p) ==
  LET c == calls[p]
  IN CASE c.op = "add" -> stored # <<>> /\ stored[Len(stored)] = c.entry
       [] c.op = "remove" -> c.entryId \notin EntryIds(stored)
       [] c.op = "move" -> \E i \in 1..Len(stored) :
                             stored[i] = c.entry /\ c.entry.id = c.entryId
       [] c.op = "clear" -> stored = <<>>
       [] OTHER -> FALSE

\* C28: callbacks one at a time, widget calls failing or not.  In addImageHere,
\* removeEntry, moveEntry and clearEntries the step that writes the stored list
\* changes no widget and no handle; every step that disposes or creates a
\* widget, and every widget call that fails, finds the stored list already
\* holding the mutator's write; and a failure leaves it so.
C28_WriteBeforeWidgets ==
  [][\A p \in Procs :
       (calls[p].op \in {"add", "remove", "move", "clear"} /\ Moves(p)) =>
         /\ stored' # stored =>
              UNCHANGED <<widgets, nextHandle, widgetHandles>>
         /\ (widgets' # widgets \/ nextHandle' # nextHandle) =>
              /\ Written(p)
              /\ stored' = stored
              /\ calls[p].pc \notin {"add_read", "add_write", "cl_write", "rm_read",
                                     "rm_write", "mv_read", "mv_scan", "mv_write"}
         /\ (calls'[p].op = "idle" /\ last'.outcome = "failed") =>
              /\ Written(p)
              /\ stored' = stored]_vars

\* the createWidget call of a Move has failed: the slot is stored on its new
\* paragraph, its old widget disposed and unmapped, and it has no widget
C28_Witness ==
  /\ last.op = "move"
  /\ last.outcome = "failed"
  /\ last.entryId \in EntryIds(stored)
  /\ ~MapHas(widgetHandles, last.entryId)
  /\ \A w \in widgets : w.entryId # last.entryId
  /\ nextHandle = 2

\* C29: callbacks one at a time, backfilling getEntries, any stored list.  A
\* getEntries that returns right after another getEntries has returned writes
\* nothing to storage (it returns what it read, not through the backfill) and
\* returns the list the one before returned.
C29_BackfillOnce ==
  [][\A p \in Procs :
       (calls[p].op = "get" /\ calls'[p].op = "idle" /\ last.op = "get") =>
         /\ last'.outcome = "read"
         /\ calls[p].pc = "ge_read"
         /\ stored' = stored
         /\ last'.result = last.result]_vars

\* C30: callbacks overlapping at their await points.  No two entries of the
\* stored list have the same sectionId and the same order.
C30_DistinctSlots ==
  \A i \in 1..Len(stored) : \A k \in 1..Len(stored) :
    i # k => ~(/\ stored[i].sectionId = stored[k].sectionId
               /\ stored[i].order = stored[k].order)

\* C31: callbacks overlapping at their await points.  At every moment no two
\* live widgets belong to the same slot id.
C31_OneWidgetPerId ==
  \A w \in widgets : \A v \in widgets : w.entryId = v.entryId => w.h = v.h

\* C32: callbacks overlapping at their await points.  dispose() has been
\* called at most once on each widget handle.
C32_DisposeOnce ==
  \A h \in DOMAIN disposeCalls : disposeCalls[h] <= 1

\* C33: callbacks overlapping at their await points.  The delivery of a
\* widget's dispose notification leaves in the widget-handle map every handle
\* other than that widget's own: a newer widget's handle mapped under the same
\* slot id stays.
C33_NoticeUnmapsOwnHandle ==
  [][\A n \in notices :
       notices' = notices \ {n} =>
         \A i \in 1..Len(widgetHandles) :
           widgetHandles[i].handle # n.h =>
             MapGet(widgetHandles', widgetHandles[i].key) = widgetHandles[i].handle]_vars

\* C34: callbacks overlapping at their await points.  Whenever no callback is
\* running, every key of the widget-handle map and every live widget's slot id
\* is the id of an entry of the stored list.
C34_NoWidgetOutlivesSlot ==
  AllIdle =>
    /\ MapKeys(widgetHandles) \subseteq EntryIds(stored)
    /\ \A w \in widgets : w.entryId \in EntryIds(stored)

\* C35: callbacks one at a time.  Whenever no callback is running and the host
\* owes no dispose event, every handle of the widget-handle map is the handle
\* of a live widget that belongs to the handle's key and is anchored to the
\* sectionId of a stored entry of that id.
C35_HandlesAnchored ==
  (AllIdle /\ notices = {}) =>
    \A i \in 1..Len(widgetHandles) :
      \E w \in widgets :
        /\ w.h = widgetHandles[i].handle
        /\ w.entryId = widgetHandles[i].key
        /\ \E k \in 1..Len(stored) :
             /\ stored[k].id = w.entryId
             /\ stored[k].sectionId = w.sectionId

\* a slot added on the first paragraph has been moved down: its handle is the
\* second widget's, which is live on the second paragraph, where it is stored
C35_Witness ==
  /\ AllIdle
  /\ notices = {}
  /\ last.op = "move"
  /\ last.outcome = "moved"
  /\ Len(stored) = 1
  /\ stored[1].id = last.entryId
  /\ stored[1].sectionId = 2
  /\ MapGet(widgetHandles, last.entryId) = 2
  /\ \E w \in widgets : w.h = 2 /\ w.sectionId = 2 /\ w.entryId = last.entryId

====
